---- MODULE Spec2Model ----
(***************************************************************************)
(* Model of iterm2_api_wrapper: the Session Handle (iTermState), its       *)
(* validation and refresh, the _validate_state call boundary, run_command  *)
(* under the Handle's execution lock, and the Client's get_state path.     *)
(*                                                                         *)
(* Two specifications share the definitions:                               *)
(*   SpecHandle : one caller drives validated_state / ensure_state /       *)
(*                refresh_from against a changing control plane;           *)
(*   Spec       : several tasks on the Client's background loop run        *)
(*                run_command, get_variable and get_state_async, one       *)
(*                action per stretch of code between two awaits.           *)
(***************************************************************************)
EXTENDS Integers, Sequences, FiniteSets, TLC

\* ------------------------------------------------------------------ bounds
\* connections the gateway opens in one run (the first is the Client's)
MaxConn == 2
\* changes of the control plane (closed link, fault, moved session or tab)
MaxRemoteChanges == 1

\* largest timeout_s of a connection acquisition, in clock ticks
MaxTimeout == 6
\* largest initial_delay_s and max_delay_s, in clock ticks
MaxDelay == 2
\* handshake sequences (Connection.async_create calls) in one run
MaxHandshakes == 3
\* tabs of the window the resolver scans
MaxTabs == 2
\* resolutions of one Client on one window
MaxResolves == 2
\* run_command timeouts, in steps of TimeoutStep
MaxPollTimeout == 3
\* characters of a command handed to _wrap_with_markers
MaxCmdLen == 3
\* lines before the begin marker, lines of output, lines printed meanwhile
MaxHistory == 2
MaxOutput == 2
MaxScroll == 2

\* ------------------------------------------------------------------ values
None == "None"
Conns == 1..MaxConn
Sids == {"s1", "s2"}
Tabs == {"tab1", "tab2"}
Wins == {"w1", "w2"}
\* the tab a new session is created in, the window a new tab is created in
HomeTab == [s \in Sids |-> IF s = "s1" THEN "tab1" ELSE "tab2"]
HomeWin == [t \in Tabs |-> IF t = "tab1" THEN "w1" ELSE "w2"]
CurrentWin == "w1"
\* windows whose "isHotkeyWindow" variable is set
HotkeyWins == {"w2"}
Profiles == {"default", "dedicated"}
\* what the control plane answers to app/session lookups
Faults == {"none", "app_none", "app_raise", "lookup_raise"}
Tasks == {"t1", "t2"}

VARIABLES
    \* control plane (remote) state
    wsOpen,        \* connections whose websocket is open
    fault,         \* current lookup fault
    sessTab,       \* session id -> hosting tab, None when not live
    tabWin,        \* tab id -> hosting window, None when detached
    nextConn,      \* next connection the gateway hands out
    changes,       \* control-plane changes so far
    loopClosed,    \* the background loop has been closed
    \* the Session Handle (iTermState) the Client holds
    handle,
    \* record of the last Handle operation of the single caller (SpecHandle)
    last,
    \* background-loop tasks (Spec)
    task,
    lockHolder,    \* _run_command_lock id -> task holding it, or None
    lockWaiters,   \* _run_command_lock id -> FIFO of waiting tasks
    clientLock,    \* task holding iTermClient._lock, or None
    clientWaiters, \* FIFO of tasks waiting for iTermClient._lock
    \* one call of _async_create_connection_with_retry (SpecConnect)
    cr,
    \* handshake sequences of Connection.async_create (SpecHandshake)
    hs,
    \* the Client's background loop and thread, and its callers (SpecClient)
    br,
    \* one call of _get_tab_with_session and its window (SpecResolver)
    rs,
    \* one run_command invocation inside its lock (SpecStrategy)
    sc,
    \* one call of _wrap_with_markers and the decoding of its payload (SpecWrap)
    wr,
    \* the extraction of the output between the markers (SpecExtract)
    ex

remoteVars == <<wsOpen, fault, sessTab, tabWin, nextConn, changes, loopClosed>>
taskVars == <<task, lockHolder, lockWaiters, clientLock, clientWaiters>>
\* variables of the other specifications, left alone by Handle and task steps
sideVars == <<cr, hs, br, rs, sc, wr, ex>>
\* variables of the Handle and task specifications
mainVars == <<remoteVars, handle, last, taskVars>>
vars == <<wsOpen, fault, sessTab, tabWin, nextConn, changes, loopClosed,
          handle, last, task, lockHolder, lockWaiters, clientLock, clientWaiters,
          sideVars>>

\* ------------------------------------------------------- control plane
\* app.async_get_app(connection): the App bound to that connection
App(c) == c

\* app.get_session_by_id: None when the id resolves to no live session,
\* else the Session object of that App
session_found(sid) == sessTab[sid] # None
get_session_by_id(sid, via) == [session_id |-> sid, via |-> via]

get_window_and_tab_for_session(sid) ==
    LET t == sessTab[sid]
    IN  IF t = None THEN <<None, None>>
        ELSE IF tabWin[t] = None THEN <<None, None>>
        ELSE <<tabWin[t], t>>

\* ------------------------------------------------------------- Handle
\* iTermState.loop: _event_loop or connection.loop (connections live on
\* the background loop)
loop(h) == IF h._event_loop # None THEN h._event_loop ELSE "bg"

online(h) ==
    IF h.connection \notin wsOpen THEN FALSE
    ELSE IF loop(h) = None \/ loopClosed THEN FALSE
    ELSE TRUE

\* the try-body of validated_state from the return of async_get_app on;
\* exc = "Exception" when a lookup raises
validated_body(h, conn) ==
    IF fault = "app_raise" THEN [ok |-> FALSE, exc |-> "Exception", h |-> h]
    ELSE IF fault = "app_none" THEN [ok |-> FALSE, exc |-> "none", h |-> h]
    ELSE LET h1 == [h EXCEPT !.app = App(conn)]
         IN  IF fault = "lookup_raise"
             THEN [ok |-> FALSE, exc |-> "Exception", h |-> h1]
             ELSE LET new_session == get_session_by_id(h1.session.session_id, App(conn))
                  IN  IF ~session_found(h1.session.session_id)
                      THEN [ok |-> FALSE, exc |-> "none", h |-> h1]
                      ELSE LET h2 == [h1 EXCEPT !.session = new_session]
                               wt == get_window_and_tab_for_session(new_session.session_id)
                           IN  IF wt[1] = None \/ wt[2] = None
                               THEN [ok |-> FALSE, exc |-> "none", h |-> h2]
                               ELSE [ok |-> TRUE, exc |-> "none",
                                     h |-> [h2 EXCEPT !.window = wt[1], !.tab = wt[2]]]

\* the same with the Handle's window and tab left as they were
validated_body_keeps_owner(h, conn) ==
    LET r == validated_body(h, conn)
    IN  [r EXCEPT !.h = [r.h EXCEPT !.window = h.window, !.tab = h.tab]]

\* the same with the window looked up from the tab the Handle held before
validated_body_window_of_old_tab(h, conn) ==
    LET r == validated_body(h, conn)
    IN  IF r.ok /\ tabWin[h.tab] # None
        THEN [r EXCEPT !.h = [r.h EXCEPT !.window = tabWin[h.tab]]]
        ELSE r

\* the lookups of validated_state, as validated_state runs them
validated_lookups(h, conn) == validated_body(h, conn)

validated_tail_no_except(h, conn) == validated_body(h, conn)

\* ... with "except Exception: return False" around it
validated_tail(h, conn) ==
    LET r == validated_lookups(h, conn)
    IN  IF r.exc # "none" THEN [ok |-> FALSE, exc |-> "none", h |-> r.h] ELSE r

\* validated_state as one call (no other task runs during its await)
validated_state(h) ==
    IF ~online(h) THEN [ok |-> FALSE, exc |-> "none", h |-> h]
    ELSE validated_tail(h, h.connection)

NotAHandle == [kind |-> "not_a_handle"]
IsHandle(x) == "connection" \in DOMAIN x

refresh_from_replaces(h, new_state) ==
    IF ~IsHandle(new_state) THEN [exc |-> "TypeError", h |-> h]
    ELSE [exc |-> "none", h |-> new_state]

refresh_from_raises(h, new_state) == [exc |-> "TypeError", h |-> h]

refresh_from_skips_profile(h, new_state) ==
    IF ~IsHandle(new_state) THEN [exc |-> "TypeError", h |-> h]
    ELSE [exc |-> "none",
          h |-> [h EXCEPT !.connection = new_state.connection,
                          !.app = new_state.app,
                          !.window = new_state.window,
                          !.tab = new_state.tab,
                          !.session = new_state.session,
                          !.is_hotkey_window = new_state.is_hotkey_window,
                          !.refresh_callback = new_state.refresh_callback,
                          !._event_loop = IF new_state._event_loop # None
                                          THEN new_state._event_loop
                                          ELSE h._event_loop]]

refresh_from(h, new_state) ==
    IF ~IsHandle(new_state) THEN [exc |-> "TypeError", h |-> h]
    ELSE [exc |-> "none",
          h |-> [h EXCEPT !.connection = new_state.connection,
                          !.app = new_state.app,
                          !.window = new_state.window,
                          !.tab = new_state.tab,
                          !.session = new_state.session,
                          !.profile = new_state.profile,
                          !.is_hotkey_window = new_state.is_hotkey_window,
                          !.refresh_callback = new_state.refresh_callback,
                          !._event_loop = IF new_state._event_loop # None
                                          THEN new_state._event_loop
                                          ELSE h._event_loop]]

\* ensure_state: the callback it awaits once validation has failed
select_callback_stored_first(supplied, h) ==
    IF h.refresh_callback # None THEN h.refresh_callback ELSE supplied

select_callback(supplied, h) ==
    IF supplied # None THEN supplied ELSE h.refresh_callback

\* ensure_state once validated_state has answered v: return, raise, or
\* await the callback
ensure_state_silent(v, supplied) ==
    IF v.exc # "none" THEN [next |-> "raise", exc |-> v.exc, callback |-> None]
    ELSE IF v.ok THEN [next |-> "return", exc |-> "none", callback |-> None]
    ELSE LET callback == select_callback(supplied, v.h)
         IN  IF callback = None
             THEN [next |-> "return", exc |-> "none", callback |-> None]
             ELSE [next |-> "await", exc |-> "none", callback |-> callback]

ensure_state_step(v, supplied) ==
    IF v.exc # "none" THEN [next |-> "raise", exc |-> v.exc, callback |-> None]
    ELSE IF v.ok THEN [next |-> "return", exc |-> "none", callback |-> None]
    ELSE LET callback == select_callback(supplied, v.h)
         IN  IF callback = None
             THEN [next |-> "raise", exc |-> "RuntimeError", callback |-> None]
             ELSE [next |-> "await", exc |-> "none", callback |-> callback]

\* ------------------------------------------- gateway / session resolver
\* the session the resolver converges on: the tagged one while it is live,
\* else the one of the tab it creates
ResolvedSid == IF sessTab["s1"] # None THEN "s1" ELSE "s2"
\* the tab and window the resolver ends up with for session sid: the ones
\* hosting it, or a tab it creates in the current window
ResolvedTab(sid) == IF sessTab[sid] = None THEN HomeTab[sid] ELSE sessTab[sid]
ResolvedWin(sid) ==
    IF tabWin[ResolvedTab(sid)] = None THEN CurrentWin ELSE tabWin[ResolvedTab(sid)]

\* iTermState(...) as _setup_iterm builds it on connection c for session sid,
\* then _init_async's two assignments
NewState(c, sid, cb) ==
    [connection |-> c, app |-> App(c),
     window |-> ResolvedWin(sid), tab |-> ResolvedTab(sid),
     session |-> [session_id |-> sid, via |-> App(c)],
     profile |-> "dedicated",
     is_hotkey_window |-> (ResolvedWin(sid) \in HotkeyWins),
     refresh_callback |-> IF cb = "_init_async" THEN None ELSE cb,
     _refresh_callback |-> IF cb = "_init_async" THEN "_init_async" ELSE None,
     _event_loop |-> IF cb = "_init_async" THEN "bg" ELSE None,
     _run_command_lock |-> c]

\* the control plane after that resolution
ResolvedSessTab(sid) == [sessTab EXCEPT ![sid] = ResolvedTab(sid)]
ResolvedTabWin(sid) == [tabWin EXCEPT ![ResolvedTab(sid)] = ResolvedWin(sid)]

\* what awaiting a refresh callback can produce
CallbackOutcomes(cb) ==
    (IF fault = "none" /\ nextConn <= MaxConn THEN {"handle"} ELSE {})
    \cup {"raise", "raise_cc"}
    \cup (IF cb = "_init_async" THEN {} ELSE {"junk"})

\* ------------------------------------------------ control-plane changes
BumpChange == /\ changes < MaxRemoteChanges
              /\ changes' = changes + 1
              /\ last' = [last EXCEPT !.run = 0]

RemoteClose ==
    /\ BumpChange
    /\ \E c \in wsOpen : wsOpen' = wsOpen \ {c}
    /\ UNCHANGED <<fault, sessTab, tabWin, nextConn, loopClosed, handle, taskVars>>

RemoteFault ==
    /\ BumpChange
    /\ \E f \in Faults \ {fault} : fault' = f
    /\ UNCHANGED <<wsOpen, sessTab, tabWin, nextConn, loopClosed, handle, taskVars>>

RemoteMoveSession ==
    /\ BumpChange
    /\ \E s \in Sids, t \in Tabs \cup {None} :
          /\ sessTab[s] # t
          /\ sessTab' = [sessTab EXCEPT ![s] = t]
    /\ UNCHANGED <<wsOpen, fault, tabWin, nextConn, loopClosed, handle, taskVars>>

RemoteMoveTab ==
    /\ BumpChange
    /\ \E t \in Tabs : \E w \in {HomeWin[t], None} :
          /\ tabWin[t] # w
          /\ tabWin' = [tabWin EXCEPT ![t] = w]
    /\ UNCHANGED <<wsOpen, fault, sessTab, nextConn, loopClosed, handle, taskVars>>

\* iTermClient.close(): the loop is stopped and closed
CloseLoop ==
    /\ BumpChange
    /\ ~loopClosed
    /\ loopClosed' = TRUE
    /\ UNCHANGED <<wsOpen, fault, sessTab, tabWin, nextConn, handle, taskVars>>

\* ---------------------------------------------------------- initial state
InitRemote ==
    /\ wsOpen = {1}
    /\ fault = "none"
    /\ sessTab = HomeTab
    /\ tabWin = HomeWin
    /\ nextConn = 2
    /\ changes = 0
    /\ loopClosed = FALSE

NoLast == [op |-> "none", ok |-> FALSE, exc |-> "none", before |-> NotAHandle,
           after |-> NotAHandle, supplied |-> None, invoked |-> <<>>,
           arg |-> NotAHandle, run |-> 0, prevOk |-> FALSE]

\* a task is one invocation, not yet started. meth: the public method called; att: 1 in
\* the wrapper's try, 2 in its except handler; inner/iatt: the same for the
\* get_variable call nested in run_command; tconn: the connection the pending
\* remote call goes through; cb: the callback awaited; lk: the lock object
\* taken from the Handle; runs: method bodies started by this call; cc: where
\* the ConnectionClosed the handler caught came from
IdleTask == [pc |-> "idle", meth |-> "none", att |-> 1, inner |-> FALSE, iatt |-> 1,
             tconn |-> 0, cb |-> None, lk |-> 0, runs |-> 0,
             cc |-> "none", result |-> "none"]

\* the sentinel run has not reached the search for its markers
IdleEX ==
    [pc |-> "idle", lines |-> <<>>, overflow |-> 0, scrolls |-> 0,
     end_line |-> -1, overflow_read |-> 0, window |-> 0, turns |-> 0,
     begin_line |-> -1, content_start |-> -1,
     result |-> [output |-> <<>>]]

\* _wrap_with_markers not called yet
IdleWR ==
    [pc |-> "idle", command |-> <<>>, token |-> <<>>, wrapped |-> <<>>,
     begin |-> <<>>, end_prefix |-> <<>>, decoded |-> <<>>]

\* no connection acquisition in progress
IdleCR == [pc |-> "idle", timeout_s |-> 0, initial_delay_s |-> 0, max_delay_s |-> 0,
           backoff |-> 1, now |-> 0, deadline |-> 0, delay_s |-> 0, attempts |-> 0,
           log |-> <<>>, slept |-> <<>>, result |-> "none"]
\* no handshake sequence started
IdleHS == [pc |-> "idle", have_fresh_cookie |-> FALSE, attempts |-> 0,
           unauthorized |-> 0, forced |-> 0, result |-> "none", history |-> <<>>]
\* a caller that has not called yet. op: what it calls; ctx: the thread it
\* calls from, "bg" the Client's own; queued: its coroutine is handed to a
\* loop and not started; on: the loop its coroutine runs on; ens, gwE, gwR,
\* made: ensure_state calls, gateway calls from ensure_state's callback and
\* from _refresh_async, states the gateway built; exc: ensure_state raised;
\* lk0, ret: the Handle object when the call began and the one returned;
\* late: a close() had returned before this one began
IdleCall == [op |-> "none", ctx |-> "none", pc |-> "idle", queued |-> FALSE,
             on |-> "none", ens |-> 0, gwE |-> 0, gwR |-> 0, made |-> 0,
             exc |-> FALSE, lk0 |-> 0, ret |-> 0, res |-> "none", late |-> FALSE]
\* the loop runs in its thread, nothing asked of it
IdleBR == [loop |-> "running", stop |-> FALSE, alive |-> TRUE, blocked |-> None,
           timeout |-> None, call |-> [t \in Tasks |-> IdleCall]]
\* the resolver not called, an empty window
\* calls: resolutions so far; prevSel, prevCreated: what the one before the
\* last returned; dirty: the window was changed since the last resolution;
\* changed: it was changed between the last two
IdleRS == [pc |-> "idle", tabs |-> <<>>, profile |-> "work", new_tab |-> FALSE,
           before |-> <<>>, selected |-> 0, session |-> None, created |-> FALSE,
           calls |-> 0, prevSel |-> 0, prevCreated |-> FALSE,
           dirty |-> FALSE, changed |-> FALSE]
\* time is counted in units of 1/1280 s: the first sleep of the sentinel
\* poll, 0.05 s, and the cap of the sleep, 0.5 s
InitialSleep == 64
SleepCap == 640
\* run_command not yet inside its lock. env: ITERM_SHELL_INTEGRATION_INSTALLED
\* of the process; buffer, username, hostname, prompts: what the session
\* has; via: the strategy that produced the result; nap, remaining: the
\* last sleep asked for and the time that was left then
IdleSC == [pc |-> "idle", env |-> "", buffer |-> FALSE, username |-> FALSE,
           hostname |-> FALSE, prompts |-> FALSE, timeout |-> 0,
           strategy |-> "none", broken |-> "none", via |-> "none",
           now |-> 0, deadline |-> 0, sleep_s |-> 0, nap |-> 0, remaining |-> 0,
           polls |-> 0, found |-> FALSE, result |-> "none"]
InitSide == cr = IdleCR /\ hs = IdleHS /\ br = IdleBR /\ rs = IdleRS /\ sc = IdleSC /\ wr = IdleWR /\ ex = IdleEX

InitTasks ==
    /\ task = [t \in Tasks |-> IdleTask]
    /\ lockHolder = [l \in 0..MaxConn |-> None]
    /\ lockWaiters = [l \in 0..MaxConn |-> <<>>]
    /\ clientLock = None
    /\ clientWaiters = <<>>

\* a Handle for session 1 as the resolver left it, built directly
\* (refresh_callback a constructor argument) or by the Client
InitialHandles ==
    { [connection |-> 1, app |-> App(1), window |-> "w1", tab |-> "tab1",
       session |-> [session_id |-> "s1", via |-> App(1)],
       profile |-> p, is_hotkey_window |-> FALSE,
       refresh_callback |-> cb, _refresh_callback |-> ucb,
       _event_loop |-> el, _run_command_lock |-> 0] :
      p \in {"default"}, cb \in {None, "stored_cb"},
      ucb \in {None, "_init_async"}, el \in {None, "bg"} }

\* --------------------------------------------- SpecHandle: one caller
InitHandle ==
    /\ InitRemote
    /\ InitTasks
    /\ handle \in {h \in InitialHandles :
                      (h._refresh_callback = "_init_async") = (h._event_loop = "bg")}
    /\ last = NoLast
    /\ InitSide

H_validated_state ==
    LET r == validated_state(handle)
    IN  /\ handle' = r.h
        /\ last' = [NoLast EXCEPT !.op = "validated_state", !.ok = r.ok,
                       !.exc = r.exc, !.before = handle, !.after = r.h,
                       !.run = IF last.run >= 1 /\ last.op = "validated_state"
                               THEN 2 ELSE 1,
                       !.prevOk = last.ok]
        /\ UNCHANGED <<remoteVars, taskVars>>

EnsureDone(supplied, v, exc, invoked, new, h) ==
    /\ handle' = h
    /\ last' = [NoLast EXCEPT !.op = "ensure_state", !.ok = v.ok, !.exc = exc,
                   !.before = handle, !.after = h, !.supplied = supplied,
                   !.invoked = invoked, !.arg = new]

\* ensure_state(refresh_callback = supplied), the whole call
H_ensure_state ==
    \E supplied \in {None, "_init_async", "supplied_cb"} :
      LET v == validated_state(handle)
          e == ensure_state_step(v, supplied)
      IN  IF e.next # "await"
          THEN /\ EnsureDone(supplied, v, e.exc, <<>>, NotAHandle, v.h)
               /\ UNCHANGED <<remoteVars, taskVars>>
          ELSE \E out \in CallbackOutcomes(e.callback) :
                 CASE out \in {"raise", "raise_cc"} ->
                        /\ EnsureDone(supplied, v,
                                      IF out = "raise" THEN "CallbackError"
                                      ELSE "ConnectionClosed",
                                      <<e.callback>>, NotAHandle, v.h)
                        /\ UNCHANGED <<remoteVars, taskVars>>
                   [] out = "junk" ->
                        LET r == refresh_from(v.h, NotAHandle)
                        IN  /\ EnsureDone(supplied, v, r.exc, <<e.callback>>,
                                          NotAHandle, r.h)
                            /\ UNCHANGED <<remoteVars, taskVars>>
                   [] out = "handle" ->
                        LET new_state == NewState(nextConn, ResolvedSid, e.callback)
                            r == refresh_from(v.h, new_state)
                        IN  /\ EnsureDone(supplied, v, r.exc, <<e.callback>>,
                                          new_state, r.h)
                            /\ wsOpen' = wsOpen \cup {nextConn}
                            /\ nextConn' = nextConn + 1
                            /\ sessTab' = ResolvedSessTab(ResolvedSid)
                            /\ tabWin' = ResolvedTabWin(ResolvedSid)
                            /\ UNCHANGED <<fault, changes, loopClosed, taskVars>>

\* refresh_from(other) called directly
RefreshArgs ==
    {NotAHandle} \cup
    { [connection |-> 2, app |-> App(2), window |-> "w2", tab |-> "tab2",
       session |-> [session_id |-> "s2", via |-> App(2)],
       profile |-> "dedicated", is_hotkey_window |-> TRUE,
       refresh_callback |-> cb, _refresh_callback |-> None,
       _event_loop |-> el, _run_command_lock |-> 2] :
      cb \in {"other_cb"}, el \in {None, "bg2"} }

H_refresh_from ==
    \E other \in RefreshArgs :
      LET r == refresh_from(handle, other)
      IN  /\ handle' = r.h
          /\ last' = [NoLast EXCEPT !.op = "refresh_from", !.exc = r.exc,
                         !.before = handle, !.after = r.h, !.arg = other]
          /\ UNCHANGED <<remoteVars, taskVars>>

NextHandle ==
    \/ H_validated_state /\ UNCHANGED sideVars
    \/ H_ensure_state /\ UNCHANGED sideVars
    \/ H_refresh_from /\ UNCHANGED sideVars
    \/ RemoteClose /\ UNCHANGED sideVars
    \/ RemoteFault /\ UNCHANGED sideVars
    \/ RemoteMoveSession /\ UNCHANGED sideVars
    \/ RemoteMoveTab /\ UNCHANGED sideVars
    \/ CloseLoop /\ UNCHANGED sideVars

SpecHandle == InitHandle /\ [][NextHandle]_vars

\* ------------------------------------ Spec: tasks on the background loop
\* the Handle as iTermClient._init_async leaves it, its refresh_callback
\* either untouched or assigned by the owner of the Client afterwards
Init ==
    /\ InitRemote
    /\ InitTasks
    /\ handle \in {h \in InitialHandles :
                      h._refresh_callback = "_init_async" /\ h._event_loop = "bg"}
    /\ last = NoLast
    /\ InitSide

\* pcs inside "async with self._run_command_lock"
Section == {"rc_probe", "rc_send_sentinel", "rc_send_structured",
            "rc_wait_sentinel", "rc_wait_structured", "rc_read"}
\* the command text is sent, its output not yet read
InFlight == {"rc_wait_sentinel", "rc_wait_structured", "rc_read"}

Goto(t, tk) == task' = [task EXCEPT ![t] = tk]

\* the call returns or raises to its caller; its frames are gone
Finish(t, tk, res) ==
    task' = [task EXCEPT ![t] = [IdleTask EXCEPT !.pc = "done", !.meth = tk.meth,
                                                  !.runs = tk.runs, !.cc = tk.cc,
                                                  !.result = res]]

\* ensure_state up to its first await: validated_state's online check
EnsureStart(h, supplied) ==
    IF ~online(h)
    THEN ensure_state_step([ok |-> FALSE, exc |-> "none", h |-> h], supplied)
    ELSE [next |-> "validate", exc |-> "none", callback |-> None]

\* async_wrapper: "await self.ensure_state()" of the current frame
StartEnsureW(t, tk, h) ==
    LET e == EnsureStart(h, None)
    IN  /\ handle' = h
        /\ CASE e.next = "validate" ->
                  Goto(t, [tk EXCEPT !.pc = "v_app", !.tconn = h.connection, !.cb = None])
             [] e.next = "await" ->
                  Goto(t, [tk EXCEPT !.pc = "cb_wait", !.cb = e.callback, !.tconn = 0])
             [] OTHER -> Finish(t, tk, e.exc)

\* async_wrapper's except clause is entered from its try block only
in_try(att) == att = 1

\* ConnectionClosed reaches the wrapper of the public call
OuterCC(t, tk, h, origin) ==
    IF in_try(tk.att)
    THEN StartEnsureW(t, [tk EXCEPT !.att = 2, !.cc = origin], h)
    ELSE /\ handle' = h
         /\ Finish(t, tk, "ConnectionClosed")

\* ConnectionClosed raised in the current frame
RaiseCCW(t, tk, h, origin) ==
    IF tk.inner
    THEN IF in_try(tk.iatt)
         THEN StartEnsureW(t, [tk EXCEPT !.iatt = 2], h)
         ELSE OuterCC(t, [tk EXCEPT !.inner = FALSE], h, "method")
    ELSE OuterCC(t, tk, h, origin)

\* async_wrapper: ensure_state has returned, "await method(...)" runs to its
\* first await
AfterEnsureW(t, tk, h) ==
    IF tk.inner \/ tk.meth = "get_variable"
    THEN /\ handle' = h
         /\ Goto(t, [tk EXCEPT !.pc = "gv_rpc", !.tconn = h.session.via, !.cb = None,
                               !.runs = IF tk.inner THEN @ ELSE @ + 1])
    ELSE StartEnsureW(t, [tk EXCEPT !.inner = TRUE, !.iatt = 1, !.cb = None,
                                    !.runs = @ + 1], h)

\* asyncio.Lock.acquire takes a lock at once only when it is free and no
\* task waits for it
lock_free_ignored(holder, waiters) == TRUE
lock_free(holder, waiters) == holder = None /\ waiters = <<>>

\* _ensure_state_async: ensure_state returned, leave "async with self._lock"
GetStateReturn(t, tk, h) ==
    /\ handle' = h
    /\ clientLock' = None
    /\ Finish(t, tk, "ok")
    /\ UNCHANGED <<clientWaiters, lockHolder, lockWaiters>>

\* _ensure_state_async: ensure_state raised; the lock is left and
\* _refresh_async entered
GetStateExcept(t, tk, h) ==
    /\ handle' = h
    /\ IF lock_free(None, clientWaiters)
       THEN /\ clientLock' = t
            /\ Goto(t, [tk EXCEPT !.pc = "gs_init"])
            /\ UNCHANGED clientWaiters
       ELSE /\ clientLock' = None
            /\ clientWaiters' = Append(clientWaiters, t)
            /\ Goto(t, [tk EXCEPT !.pc = "gs_rlock"])
    /\ UNCHANGED <<lockHolder, lockWaiters>>

\* a public validated method of the Handle is called by a coroutine that is
\* already on the Handle's loop
Call(t) ==
    /\ task[t].pc = "idle"
    /\ \E m \in {"run_command", "get_variable"} :
          StartEnsureW(t, [IdleTask EXCEPT !.meth = m],
                       handle)
    /\ UNCHANGED <<remoteVars, last, lockHolder, lockWaiters, clientLock, clientWaiters>>

\* iTermClient.get_state_async on the background loop
CallGetState(t) ==
    /\ task[t].pc = "idle"
    /\ LET tk == [IdleTask EXCEPT !.meth = "get_state_async", !.cb = "_init_async"]
           e == EnsureStart(handle, "_init_async")
       IN  IF lock_free(clientLock, clientWaiters)
           THEN /\ clientLock' = t
                /\ Goto(t, IF e.next = "validate"
                           THEN [tk EXCEPT !.pc = "v_app", !.tconn = handle.connection]
                           ELSE [tk EXCEPT !.pc = "cb_wait", !.cb = e.callback, !.tconn = 0])
                /\ UNCHANGED clientWaiters
           ELSE /\ clientWaiters' = Append(clientWaiters, t)
                /\ Goto(t, [tk EXCEPT !.pc = "gs_lock"])
                /\ UNCHANGED clientLock
    /\ UNCHANGED <<remoteVars, handle, last, lockHolder, lockWaiters>>

\* a task waiting for iTermClient._lock gets it
ClientLockGranted(t) ==
    /\ task[t].pc \in {"gs_lock", "gs_rlock"}
    /\ clientLock = None
    /\ clientWaiters # <<>>
    /\ Head(clientWaiters) = t
    /\ clientLock' = t
    /\ clientWaiters' = Tail(clientWaiters)
    /\ LET tk == task[t]
           e == EnsureStart(handle, "_init_async")
       IN  Goto(t, IF tk.pc = "gs_rlock" THEN [tk EXCEPT !.pc = "gs_init"]
                   ELSE IF e.next = "validate"
                   THEN [tk EXCEPT !.pc = "v_app", !.tconn = handle.connection]
                   ELSE [tk EXCEPT !.pc = "cb_wait", !.cb = e.callback, !.tconn = 0])
    /\ UNCHANGED <<remoteVars, handle, last, lockHolder, lockWaiters>>

\* validated_state resumes from "await app.async_get_app(...)"; the rest of
\* ensure_state follows up to its next await
ValidatedResume(t) ==
    /\ task[t].pc = "v_app"
    /\ LET tk == task[t]
           r == IF tk.tconn \in wsOpen THEN validated_tail(handle, tk.tconn)
                ELSE [ok |-> FALSE, exc |-> "none", h |-> handle]
           e == ensure_state_step(r, IF tk.meth = "get_state_async"
                                     THEN "_init_async" ELSE None)
       IN  CASE e.next = "return" /\ tk.meth = "get_state_async" ->
                  GetStateReturn(t, tk, r.h)
             [] e.next = "return" /\ tk.meth # "get_state_async" ->
                  /\ AfterEnsureW(t, tk, r.h)
                  /\ UNCHANGED <<lockHolder, lockWaiters, clientLock, clientWaiters>>
             [] e.next = "await" ->
                  /\ handle' = r.h
                  /\ Goto(t, [tk EXCEPT !.pc = "cb_wait", !.cb = e.callback, !.tconn = 0])
                  /\ UNCHANGED <<lockHolder, lockWaiters, clientLock, clientWaiters>>
             [] e.next = "raise" /\ tk.meth = "get_state_async" ->
                  GetStateExcept(t, tk, r.h)
             [] e.next = "raise" /\ tk.meth # "get_state_async" ->
                  /\ handle' = r.h
                  /\ Finish(t, tk, e.exc)
                  /\ UNCHANGED <<lockHolder, lockWaiters, clientLock, clientWaiters>>
    /\ UNCHANGED <<remoteVars, last>>

\* ensure_state resumes from "await callback()": refresh_from, or the
\* callback's exception
CallbackResume(t) ==
    /\ task[t].pc = "cb_wait"
    /\ LET tk == task[t]
       IN  \E out \in CallbackOutcomes(tk.cb) :
             CASE out = "handle" ->
                    LET r == refresh_from(handle, NewState(nextConn, ResolvedSid, tk.cb))
                    IN  /\ wsOpen' = wsOpen \cup {nextConn}
                        /\ nextConn' = nextConn + 1
                        /\ sessTab' = ResolvedSessTab(ResolvedSid)
                        /\ tabWin' = ResolvedTabWin(ResolvedSid)
                        /\ UNCHANGED <<fault, changes, loopClosed>>
                        /\ IF tk.meth = "get_state_async"
                           THEN GetStateReturn(t, tk, r.h)
                           ELSE /\ AfterEnsureW(t, tk, r.h)
                                /\ UNCHANGED <<lockHolder, lockWaiters,
                                               clientLock, clientWaiters>>
               [] out = "junk" ->
                    LET r == refresh_from(handle, NotAHandle)
                    IN  /\ UNCHANGED remoteVars
                        /\ IF tk.meth = "get_state_async"
                           THEN GetStateExcept(t, tk, r.h)
                           ELSE /\ handle' = r.h
                                /\ Finish(t, tk, r.exc)
                                /\ UNCHANGED <<lockHolder, lockWaiters,
                                               clientLock, clientWaiters>>
               [] out = "raise" ->
                    /\ UNCHANGED remoteVars
                    /\ IF tk.meth = "get_state_async"
                       THEN GetStateExcept(t, tk, handle)
                       ELSE /\ UNCHANGED handle
                            /\ Finish(t, tk, "CallbackError")
                            /\ UNCHANGED <<lockHolder, lockWaiters,
                                           clientLock, clientWaiters>>
               [] out = "raise_cc" ->
                    /\ UNCHANGED remoteVars
                    /\ IF tk.meth = "get_state_async"
                       THEN GetStateExcept(t, tk, handle)
                       ELSE /\ RaiseCCW(t, tk, handle, "ensure")
                            /\ UNCHANGED <<lockHolder, lockWaiters,
                                           clientLock, clientWaiters>>
    /\ UNCHANGED last

\* _refresh_async resumes from "await self._init_async()"
RefreshAsyncResume(t) ==
    /\ task[t].pc = "gs_init"
    /\ LET tk == task[t]
       IN  \E out \in CallbackOutcomes("_init_async") :
             IF out = "handle"
             THEN LET new_state == NewState(nextConn, ResolvedSid, "_init_async")
                      r == refresh_from(handle, new_state)
                  IN  /\ wsOpen' = wsOpen \cup {nextConn}
                      /\ nextConn' = nextConn + 1
                      /\ sessTab' = ResolvedSessTab(ResolvedSid)
                      /\ tabWin' = ResolvedTabWin(ResolvedSid)
                      /\ UNCHANGED <<fault, changes, loopClosed>>
                      /\ handle' = IF r.exc = "none" THEN r.h ELSE new_state
                      /\ Finish(t, tk, "ok")
             ELSE /\ UNCHANGED <<remoteVars, handle>>
                  /\ Finish(t, tk, IF out = "raise" THEN "CallbackError"
                                   ELSE "ConnectionClosed")
    /\ clientLock' = None
    /\ UNCHANGED <<last, clientWaiters, lockHolder, lockWaiters>>

\* run_command reaches "async with self._run_command_lock"
AcquireRunLock(t, tk) ==
    LET l == handle._run_command_lock
    IN  IF lock_free(lockHolder[l], lockWaiters[l])
        THEN /\ lockHolder' = [lockHolder EXCEPT ![l] = t]
             /\ Goto(t, [tk EXCEPT !.pc = "rc_probe", !.lk = l,
                                   !.tconn = handle.connection])
             /\ UNCHANGED lockWaiters
        ELSE /\ lockWaiters' = [lockWaiters EXCEPT ![l] = Append(@, t)]
             /\ Goto(t, [tk EXCEPT !.pc = "rc_lock", !.lk = l, !.tconn = 0])
             /\ UNCHANGED lockHolder

\* get_variable resumes from "await target.async_get_variable(...)"; in
\* run_command the path comparison and, if asked for, the cd follow
GetVariableResume(t) ==
    /\ task[t].pc = "gv_rpc"
    /\ LET tk == task[t]
       IN  IF tk.tconn \notin wsOpen
           THEN /\ RaiseCCW(t, tk, handle, "method")
                /\ UNCHANGED <<lockHolder, lockWaiters>>
           ELSE IF ~tk.inner
           THEN /\ Finish(t, tk, "ok")
                /\ UNCHANGED <<handle, lockHolder, lockWaiters>>
           ELSE \E cd \in BOOLEAN :
                  /\ UNCHANGED handle
                  /\ IF cd
                     THEN /\ Goto(t, [tk EXCEPT !.inner = FALSE, !.pc = "rc_cd",
                                                !.tconn = handle.session.via])
                          /\ UNCHANGED <<lockHolder, lockWaiters>>
                     ELSE AcquireRunLock(t, [tk EXCEPT !.inner = FALSE])
    /\ UNCHANGED <<remoteVars, last, clientLock, clientWaiters>>

\* run_command resumes from the "cd" async_send_text
CdResume(t) ==
    /\ task[t].pc = "rc_cd"
    /\ LET tk == task[t]
       IN  IF tk.tconn \notin wsOpen
           THEN /\ RaiseCCW(t, tk, handle, "method")
                /\ UNCHANGED <<lockHolder, lockWaiters>>
           ELSE /\ UNCHANGED handle
                /\ AcquireRunLock(t, tk)
    /\ UNCHANGED <<remoteVars, last, clientLock, clientWaiters>>

\* a task waiting for _run_command_lock gets it
RunLockGranted(t) ==
    /\ task[t].pc = "rc_lock"
    /\ LET tk == task[t]
       IN  /\ lockHolder[tk.lk] = None
           /\ lockWaiters[tk.lk] # <<>>
           /\ Head(lockWaiters[tk.lk]) = t
           /\ lockHolder' = [lockHolder EXCEPT ![tk.lk] = t]
           /\ lockWaiters' = [lockWaiters EXCEPT ![tk.lk] = Tail(@)]
           /\ Goto(t, [tk EXCEPT !.pc = "rc_probe", !.tconn = handle.connection])
    /\ UNCHANGED <<remoteVars, handle, last, clientLock, clientWaiters>>

\* leaving "async with self._run_command_lock" on ConnectionClosed
LeaveOnCC(t, tk) ==
    /\ lockHolder' = [lockHolder EXCEPT ![tk.lk] = None]
    /\ UNCHANGED lockWaiters
    /\ RaiseCCW(t, tk, handle, "method")

\* leaving it with a result or another exception
LeaveWith(t, tk, res) ==
    /\ lockHolder' = [lockHolder EXCEPT ![tk.lk] = None]
    /\ UNCHANGED <<lockWaiters, handle>>
    /\ Finish(t, tk, res)

\* _shell_integration_enabled resumes from _get_prompt: the strategy is chosen
\* and the command text sent
ProbeResume(t) ==
    /\ task[t].pc = "rc_probe"
    /\ LET tk == task[t]
       IN  IF tk.tconn \notin wsOpen
           THEN LeaveOnCC(t, tk)
           ELSE \E strategy \in {"rc_send_sentinel", "rc_send_structured"} :
                  /\ Goto(t, [tk EXCEPT !.pc = strategy, !.tconn = handle.session.via])
                  /\ UNCHANGED <<handle, lockHolder, lockWaiters>>
    /\ UNCHANGED <<remoteVars, last, clientLock, clientWaiters>>

\* async_send_text of the command returned; the structured strategy also
\* fetched the last prompt
SendResume(t) ==
    /\ task[t].pc \in {"rc_send_sentinel", "rc_send_structured"}
    /\ LET tk == task[t]
       IN  IF tk.tconn \notin wsOpen
           THEN LeaveOnCC(t, tk)
           ELSE IF tk.pc = "rc_send_sentinel"
           THEN /\ Goto(t, [tk EXCEPT !.pc = "rc_wait_sentinel",
                                      !.tconn = handle.session.via])
                /\ UNCHANGED <<handle, lockHolder, lockWaiters>>
           ELSE \E last_prompt \in {"prompt", None} :
                  IF last_prompt = None
                  THEN LeaveWith(t, tk, "ok")
                  ELSE /\ Goto(t, [tk EXCEPT !.pc = "rc_wait_structured",
                                             !.tconn = handle.connection])
                       /\ UNCHANGED <<handle, lockHolder, lockWaiters>>
    /\ UNCHANGED <<remoteVars, last, clientLock, clientWaiters>>

\* the end marker is found or the command-end event arrives, or the timeout
\* passes
WaitResume(t) ==
    /\ task[t].pc \in {"rc_wait_sentinel", "rc_wait_structured"}
    /\ LET tk == task[t]
       IN  IF tk.tconn \notin wsOpen
           THEN LeaveOnCC(t, tk)
           ELSE \E ended \in BOOLEAN :
                  IF ended
                  THEN /\ Goto(t, [tk EXCEPT !.pc = "rc_read",
                                             !.tconn = handle.session.via])
                       /\ UNCHANGED <<handle, lockHolder, lockWaiters>>
                  ELSE LeaveWith(t, tk, IF tk.pc = "rc_wait_sentinel"
                                        THEN "TimeoutError" ELSE "ok")
    /\ UNCHANGED <<remoteVars, last, clientLock, clientWaiters>>

\* the output lines have been read
ReadResume(t) ==
    /\ task[t].pc = "rc_read"
    /\ LET tk == task[t]
       IN  IF tk.tconn \notin wsOpen
           THEN LeaveOnCC(t, tk)
           ELSE LeaveWith(t, tk, "ok")
    /\ UNCHANGED <<remoteVars, last, clientLock, clientWaiters>>

Next ==
    \/ \E t \in Tasks : Call(t) /\ UNCHANGED sideVars
    \/ \E t \in Tasks : CallGetState(t) /\ UNCHANGED sideVars
    \/ \E t \in Tasks : ClientLockGranted(t) /\ UNCHANGED sideVars
    \/ \E t \in Tasks : ValidatedResume(t) /\ UNCHANGED sideVars
    \/ \E t \in Tasks : CallbackResume(t) /\ UNCHANGED sideVars
    \/ \E t \in Tasks : RefreshAsyncResume(t) /\ UNCHANGED sideVars
    \/ \E t \in Tasks : GetVariableResume(t) /\ UNCHANGED sideVars
    \/ \E t \in Tasks : CdResume(t) /\ UNCHANGED sideVars
    \/ \E t \in Tasks : RunLockGranted(t) /\ UNCHANGED sideVars
    \/ \E t \in Tasks : ProbeResume(t) /\ UNCHANGED sideVars
    \/ \E t \in Tasks : SendResume(t) /\ UNCHANGED sideVars
    \/ \E t \in Tasks : WaitResume(t) /\ UNCHANGED sideVars
    \/ \E t \in Tasks : ReadResume(t) /\ UNCHANGED sideVars
    \/ RemoteClose /\ UNCHANGED sideVars
    \/ RemoteMoveSession /\ UNCHANGED sideVars

Spec == Init /\ [][Next]_vars

\* ------------------------- SpecConnect: connection acquisition with retry
\* errno values of the OSError an attempt can fail with
_TRANSIENT_CONNECT_ERRNOS == {"ENOENT", "ECONNREFUSED", "ECONNRESET"}
FatalErrnos == {"EPERM"}
AttemptOutcomes == {"ok"} \cup _TRANSIENT_CONNECT_ERRNOS \cup FatalErrnos

\* "exc.errno not in _TRANSIENT_CONNECT_ERRNOS" is what re-raises
is_transient_any(errno) == TRUE
is_transient(errno) == errno \in _TRANSIENT_CONNECT_ERRNOS

\* "time.monotonic() >= deadline"
deadline_passed_strict(now, deadline) == now > deadline
deadline_passed(now, deadline) == now >= deadline

Min(a, b) == IF a <= b THEN a ELSE b

\* "delay_s = min(max_delay_s, delay_s * backoff)"
next_delay_uncapped(delay_s, max_delay_s, backoff) == delay_s * backoff
next_delay(delay_s, max_delay_s, backoff) == Min(max_delay_s, delay_s * backoff)

\* the arguments of one call; backoff is a whole number here so that the
\* product is exact
InitConnect ==
    /\ InitRemote
    /\ InitTasks
    /\ handle \in {h \in InitialHandles :
                      h._refresh_callback = "_init_async" /\ h._event_loop = "bg"
                      /\ h.refresh_callback = None}
    /\ last = NoLast
    /\ \E t \in 0..MaxTimeout, i \in 0..MaxDelay, m \in 0..MaxDelay, b \in {1, 2} :
          cr = [IdleCR EXCEPT !.timeout_s = t, !.initial_delay_s = i,
                              !.max_delay_s = m, !.backoff = b]
    /\ hs = IdleHS
    /\ br = IdleBR
    /\ rs = IdleRS
    /\ sc = IdleSC
    /\ wr = IdleWR
    /\ ex = IdleEX

\* lines 80-81: the deadline and the first delay are fixed
CR_Enter ==
    /\ cr.pc = "idle"
    /\ cr' = [cr EXCEPT !.pc = "attempt", !.deadline = cr.now + cr.timeout_s,
                        !.delay_s = cr.initial_delay_s]
    /\ UNCHANGED <<mainVars, hs, br, rs, sc, wr, ex>>

\* one pass of the loop up to its sleep: "await connection_cls.async_create()"
\* takes some time and returns or raises; the except clause follows
CR_Attempt ==
    /\ cr.pc = "attempt"
    /\ \E took \in {1, 2}, out \in AttemptOutcomes :
          LET now == cr.now + took
              c == [cr EXCEPT !.now = now, !.attempts = @ + 1,
                              !.log = Append(@, out)]
          IN  cr' = IF out = "ok"
                    THEN [c EXCEPT !.pc = "done", !.result = "connection"]
                    ELSE IF ~is_transient(out)
                    THEN [c EXCEPT !.pc = "done", !.result = "OSError"]
                    ELSE IF deadline_passed(now, c.deadline)
                    THEN [c EXCEPT !.pc = "done", !.result = "TimeoutError"]
                    ELSE [c EXCEPT !.pc = "sleep"]
    /\ UNCHANGED <<mainVars, hs, br, rs, sc, wr, ex>>

\* "await asyncio.sleep(delay_s)" returns, not earlier than asked, and the
\* delay is multiplied
CR_Wake ==
    /\ cr.pc = "sleep"
    /\ \E late \in {0, 1} :
          cr' = [cr EXCEPT !.pc = "attempt", !.now = @ + cr.delay_s + late,
                           !.slept = Append(@, cr.delay_s),
                           !.delay_s = next_delay(cr.delay_s, cr.max_delay_s,
                                                  cr.backoff)]
    /\ UNCHANGED <<mainVars, hs, br, rs, sc, wr, ex>>

NextConnect == CR_Enter \/ CR_Attempt \/ CR_Wake

\* the loop is scheduled as long as it can run
SpecConnect == InitConnect /\ [][NextConnect]_vars /\ WF_vars(NextConnect)

\* ------------------------- SpecHandshake: Connection.async_create
\* what awaiting the connect coroutine gives: the websocket, an InvalidStatus
\* with its status code, or an error that is not caught here
ConnectOutcomes == {"ok", "401", "406", "500", "OSError"}

\* "if have_fresh_cookie: ... raise"
gives_up_never(have_fresh_cookie) == FALSE
gives_up(have_fresh_cookie) == have_fresh_cookie

InitHandshake ==
    /\ InitRemote
    /\ InitTasks
    /\ handle \in {h \in InitialHandles :
                      h._refresh_callback = "_init_async" /\ h._event_loop = "bg"
                      /\ h.refresh_callback = None}
    /\ last = NoLast
    /\ cr = IdleCR
    /\ hs = IdleHS
    /\ br = IdleBR
    /\ rs = IdleRS
    /\ sc = IdleSC
    /\ wr = IdleWR
    /\ ex = IdleEX

\* lines 59-62: a new Connection, authenticate(False) says whether it got a
\* fresh cookie; no sequence starts after sys.exit
HS_Enter ==
    /\ hs.pc \in {"idle", "done"}
    /\ Len(hs.history) < MaxHandshakes
    /\ \A i \in DOMAIN hs.history : hs.history[i] # "SystemExit"
    /\ \E fresh \in BOOLEAN :
          hs' = [IdleHS EXCEPT !.pc = "connect", !.have_fresh_cookie = fresh,
                               !.history = hs.history]
    /\ UNCHANGED <<mainVars, cr, br, rs, sc, wr, ex>>

\* the sequence ends with the connection or an exception
HS_Done(h, res) == [h EXCEPT !.pc = "done", !.result = res,
                             !.history = Append(@, res)]

\* one pass of the loop: the connect coroutine is awaited and the except
\* clause, with its forced authenticate, runs
HS_Connect ==
    /\ hs.pc = "connect"
    /\ \E status \in ConnectOutcomes :
          LET h == [hs EXCEPT !.attempts = @ + 1]
              u == [h EXCEPT !.unauthorized = @ + 1]
          IN  CASE status = "ok" -> hs' = HS_Done(h, "connection")
                [] status = "401" ->
                     IF gives_up(h.have_fresh_cookie)
                     THEN hs' = HS_Done(u, "Unauthorized")
                     ELSE \E got \in BOOLEAN :
                            LET f == [u EXCEPT !.forced = @ + 1,
                                               !.have_fresh_cookie = got]
                            IN  hs' = IF got THEN f ELSE HS_Done(f, "Unauthorized")
                [] status = "406" -> hs' = HS_Done(h, "SystemExit")
                [] status = "500" -> hs' = HS_Done(h, "InvalidStatus")
                [] OTHER -> hs' = HS_Done(h, "OSError")
    /\ UNCHANGED <<mainVars, cr, br, rs, sc, wr, ex>>

NextHandshake == HS_Enter \/ HS_Connect

\* an awaited connect coroutine ends
SpecHandshake == InitHandshake /\ [][NextHandshake]_vars /\ WF_vars(HS_Connect)

\* ------------------- SpecClient: callers, the background loop, close()
\* the Handle as the constructor's _init_async left it; the timeout the
\* Client was built with
InitClient ==
    /\ InitRemote
    /\ InitTasks
    /\ handle \in {h \in InitialHandles :
                      h._refresh_callback = "_init_async" /\ h._event_loop = "bg"}
    /\ last = NoLast
    /\ cr = IdleCR
    /\ hs = IdleHS
    /\ \E to \in {None, "finite"} : br = [IdleBR EXCEPT !.timeout = to]
    /\ rs = IdleRS
    /\ sc = IdleSC
    /\ wr = IdleWR
    /\ ex = IdleEX

\* threads a call can come from: the Client's background thread (a coroutine
\* or callback of its loop) or any other thread
Contexts == {"other", "bg"}
GetOps == {"get_state", "get_state_async"}

\* the background loop can run a callback: run_forever is active and no
\* callback of it is stuck in a synchronous wait
LoopFree == br.loop = "running" /\ br.blocked = None

\* iTermClient._on_client_loop
_on_client_loop(ctx) == ctx = "bg"

\* iTermState._on_correct_loop
_on_correct_loop_always(ctx, h) == TRUE
_on_correct_loop(ctx, h) == loop(h) # None /\ ctx = loop(h)

\* async_wrapper: the loop the validated method body runs on
run_on(ctx, h) == IF _on_correct_loop(ctx, h) THEN ctx ELSE loop(h)

\* the caller's bookkeeping over one step of its coroutine
Accounted(t, c) ==
    LET p == task[t].pc
        q == task'[t].pc
        g == c.op \in GetOps
    IN  [c EXCEPT
           !.queued = FALSE,
           !.ens = IF g /\ p \in {"idle", "gs_lock"} /\ q \in {"v_app", "cb_wait"}
                   THEN @ + 1 ELSE @,
           !.gwE = IF g /\ p = "cb_wait" THEN @ + 1 ELSE @,
           !.gwR = IF g /\ p = "gs_init" THEN @ + 1 ELSE @,
           !.made = IF g /\ nextConn' # nextConn THEN @ + 1 ELSE @,
           !.exc = @ \/ (g /\ p \in {"v_app", "cb_wait"} /\ q \in {"gs_rlock", "gs_init"}),
           !.ret = IF g /\ q = "done" THEN handle'._run_command_lock ELSE @,
           !.pc = IF q = "done" /\ @ \in {"waiting", "inplace"} THEN "done" ELSE @,
           !.res = IF q = "done" /\ c.pc \in {"waiting", "inplace"}
                   THEN task'[t].result ELSE @]

\* a step of t's coroutine on the loop
Ran(t) ==
    /\ br' = [br EXCEPT !.call[t] = Accounted(t, br.call[t])]
    /\ UNCHANGED <<cr, hs, rs, sc, wr, ex>>

\* run_coroutine_threadsafe(coro, self._loop) from thread ctx, the caller
\* then waiting for the result
Submitted(t, op, ctx, sync) ==
    IF br.loop = "closed"
    THEN [br EXCEPT !.call[t] = [IdleCall EXCEPT !.op = op, !.ctx = ctx, !.pc = "done",
                                                 !.res = "RuntimeError"]]
    ELSE [br EXCEPT !.call[t] = [IdleCall EXCEPT !.op = op, !.ctx = ctx,
                                                 !.pc = "waiting", !.queued = TRUE,
                                                 !.on = "bg",
                                                 !.lk0 = handle._run_command_lock],
                    !.blocked = IF sync /\ ctx = "bg" THEN t ELSE @]

\* get_state(): _ensure_state hands _invoke to the loop and waits in the
\* calling thread
CL_get_state(t) ==
    /\ br.call[t].pc = "idle"
    /\ task[t].pc = "idle"
    /\ \E ctx \in Contexts :
          /\ ctx = "bg" => LoopFree
          /\ br' = Submitted(t, "get_state", ctx, TRUE)
    /\ UNCHANGED <<mainVars, cr, hs, rs, sc, wr, ex>>

\* get_state_async(): in place on the Client's loop, else handed to it and
\* waited for in an executor thread
CL_get_state_async(t) ==
    /\ br.call[t].pc = "idle"
    /\ task[t].pc = "idle"
    /\ \E ctx \in Contexts :
          IF _on_client_loop(ctx)
          THEN /\ LoopFree
               /\ CallGetState(t)
               /\ br' = [br EXCEPT !.call[t] =
                           Accounted(t, [IdleCall EXCEPT
                                           !.op = "get_state_async", !.ctx = ctx,
                                           !.pc = "inplace", !.on = ctx,
                                           !.lk0 = handle._run_command_lock])]
               /\ UNCHANGED <<cr, hs, rs, sc, wr, ex>>
          ELSE /\ br' = Submitted(t, "get_state_async", ctx, FALSE)
               /\ UNCHANGED <<mainVars, cr, hs, rs, sc, wr, ex>>

\* a public validated method of the Handle: async_wrapper runs the body in
\* place or hands itself to the Handle's loop
CL_method(t) ==
    /\ br.call[t].pc = "idle"
    /\ task[t].pc = "idle"
    /\ \E ctx \in Contexts :
          IF run_on(ctx, handle) = ctx
          THEN /\ ctx = "bg" => LoopFree
               /\ Call(t)
               /\ br' = [br EXCEPT !.call[t] =
                           Accounted(t, [IdleCall EXCEPT
                                           !.op = "method", !.ctx = ctx,
                                           !.pc = "inplace", !.on = ctx])]
               /\ UNCHANGED <<cr, hs, rs, sc, wr, ex>>
          ELSE /\ br' = [br EXCEPT !.call[t] =
                           [Submitted(t, "method", ctx, FALSE).call[t] EXCEPT
                              !.on = IF @ = "none" THEN @ ELSE run_on(ctx, handle),
                              !.lk0 = 0]]
               /\ UNCHANGED <<mainVars, cr, hs, rs, sc, wr, ex>>

\* the loop starts a coroutine handed to it
CL_start(t) ==
    /\ br.call[t].queued
    /\ task[t].pc = "idle"
    /\ LoopFree
    /\ IF br.call[t].op \in GetOps THEN CallGetState(t) ELSE Call(t)
    /\ Ran(t)

\* future.result(timeout=self._timeout) gives up; the coroutine stays with
\* the loop
CL_timeout(t) ==
    /\ br.call[t].pc = "waiting"
    /\ br.call[t].op = "get_state"
    /\ br.timeout # None
    /\ br' = [br EXCEPT !.call[t].pc = "done", !.call[t].res = "TimeoutError",
                        !.blocked = IF @ = t THEN None ELSE @]
    /\ UNCHANGED <<mainVars, cr, hs, rs, sc, wr, ex>>

\* loop.close() inside "try ... except RuntimeError: pass": a running loop
\* refuses
loop_closed_by_close(l) == IF l = "running" THEN l ELSE "closed"

\* close(): the stop request; from the background thread the rest follows
\* at once, from another thread the join of a live thread comes first
CL_close(t) ==
    /\ br.call[t].pc = "idle"
    /\ task[t].pc = "idle"
    /\ \E ctx \in Contexts :
          LET is_own_thread == ctx = "bg"
              c == [IdleCall EXCEPT
                      !.op = "close", !.ctx = ctx,
                      !.late = \E u \in Tasks : /\ br.call[u].op = "close"
                                                /\ br.call[u].pc = "done"]
              b == [br EXCEPT !.stop = @ \/ br.loop = "running"]
          IN  /\ is_own_thread => LoopFree
              /\ br' = IF ~is_own_thread /\ br.alive
                       THEN [b EXCEPT !.call[t] = [c EXCEPT !.pc = "join"]]
                       ELSE [b EXCEPT !.loop = loop_closed_by_close(@),
                                      !.call[t] = [c EXCEPT !.pc = "done", !.res = "ok"]]
    /\ UNCHANGED <<mainVars, cr, hs, rs, sc, wr, ex>>

\* the joined thread has ended
CL_join_return(t) ==
    /\ br.call[t].pc = "join"
    /\ ~br.alive
    /\ br' = [br EXCEPT !.loop = loop_closed_by_close(@),
                        !.call[t].pc = "done", !.call[t].res = "ok"]
    /\ UNCHANGED <<mainVars, cr, hs, rs, sc, wr, ex>>

\* join(timeout=5.0) returns with the thread alive: its loop is stuck in a
\* synchronous wait
CL_join_timeout(t) ==
    /\ br.call[t].pc = "join"
    /\ br.alive
    /\ br.blocked # None
    /\ br' = [br EXCEPT !.loop = loop_closed_by_close(@),
                        !.call[t].pc = "done", !.call[t].res = "ok"]
    /\ UNCHANGED <<mainVars, cr, hs, rs, sc, wr, ex>>

\* the loop runs the stop it was asked for; run_forever and the thread end
CL_loop_stop ==
    /\ br.stop
    /\ LoopFree
    /\ br' = [br EXCEPT !.loop = "stopped", !.alive = FALSE, !.stop = FALSE]
    /\ UNCHANGED <<mainVars, cr, hs, rs, sc, wr, ex>>

NextClient ==
    \/ \E t \in Tasks : CL_get_state(t)
    \/ \E t \in Tasks : CL_get_state_async(t)
    \/ \E t \in Tasks : CL_method(t)
    \/ \E t \in Tasks : CL_start(t)
    \/ \E t \in Tasks : CL_timeout(t)
    \/ \E t \in Tasks : CL_close(t)
    \/ \E t \in Tasks : CL_join_return(t)
    \/ \E t \in Tasks : CL_join_timeout(t)
    \/ CL_loop_stop
    \/ \E t \in Tasks : LoopFree /\ ClientLockGranted(t) /\ Ran(t)
    \/ \E t \in Tasks : LoopFree /\ ValidatedResume(t) /\ Ran(t)
    \/ \E t \in Tasks : LoopFree /\ CallbackResume(t) /\ Ran(t)
    \/ \E t \in Tasks : LoopFree /\ RefreshAsyncResume(t) /\ Ran(t)
    \/ \E t \in Tasks : LoopFree /\ GetVariableResume(t) /\ Ran(t)
    \/ \E t \in Tasks : LoopFree /\ CdResume(t) /\ Ran(t)
    \/ \E t \in Tasks : LoopFree /\ RunLockGranted(t) /\ Ran(t)
    \/ \E t \in Tasks : LoopFree /\ ProbeResume(t) /\ Ran(t)
    \/ \E t \in Tasks : LoopFree /\ SendResume(t) /\ Ran(t)
    \/ \E t \in Tasks : LoopFree /\ WaitResume(t) /\ Ran(t)
    \/ \E t \in Tasks : LoopFree /\ ReadResume(t) /\ Ran(t)
    \/ RemoteClose /\ UNCHANGED sideVars

SpecClient == InitClient /\ [][NextClient]_vars

\* ------------------------ SpecResolver: _get_tab_with_session
ProfileNames == {"work", "play"}
\* f"pyterm-session:{profile.name}"
iterm_mcp_tag(name) == IF name = "work" THEN "pyterm-session:work"
                       ELSE "pyterm-session:play"
Titles == {"zsh"} \cup {iterm_mcp_tag(n) : n \in ProfileNames}

\* a tab as the scan reads it: its current session (None when it has none),
\* its "title" variable, the session's name and "profileName" variable
TabRecords ==
    {[current_session |-> cs, title |-> ti, name |-> na, profileName |-> pn] :
       cs \in {None, "session"}, ti \in Titles, na \in Titles, pn \in ProfileNames}
    \ {tb \in [current_session : {None}, title : Titles, name : Titles,
               profileName : ProfileNames] : tb.name # "zsh" \/ tb.profileName # "work"}

\* window.tabs, each session known by the position of its tab
Windows == UNION {[1..n -> TabRecords] : n \in 0..MaxTabs}

\* window.async_create_tab(profile=...): a new last tab with a session of
\* that profile
async_create_tab(tabs, name) ==
    Append(tabs, [current_session |-> "session", title |-> "zsh", name |-> "zsh",
                  profileName |-> name])

\* the test of the scan at line 108
tab_matches_tag_only(tb, name) ==
    iterm_mcp_tag(name) \in {tb.title, tb.name}
tab_matches(tb, name) ==
    name = tb.profileName /\ iterm_mcp_tag(name) \in {tb.title, tb.name}

\* the tabs a "for t in window.tabs" scan stops at: those with a current
\* session that pass the test
Matching(tabs, name) ==
    {i \in DOMAIN tabs : tabs[i].current_session # None /\ tab_matches(tabs[i], name)}
TaggedTabs(tabs, name) ==
    {i \in DOMAIN tabs : /\ tabs[i].current_session # None
                         /\ iterm_mcp_tag(name) \in {tabs[i].title, tabs[i].name}}
First(S) == CHOOSE i \in S : \A j \in S : i <= j

\* default_tab_with_session: its own scan when neither flag is set, a new
\* tab when a flag is set or the scan found nothing
default_tab_with_session(tabs, name, new_tab, override_new_tab) ==
    LET found == IF ~new_tab /\ ~override_new_tab THEN TaggedTabs(tabs, name) ELSE {}
    IN  IF new_tab \/ override_new_tab \/ found = {}
        THEN [tabs |-> async_create_tab(tabs, name), selected |-> Len(tabs) + 1,
              created |-> TRUE]
        ELSE [tabs |-> tabs, selected |-> First(found), created |-> FALSE]

\* lines 118-123: the selected tab and session get the tag unless one of
\* them carries it
tagged_not(tabs, i, name) == tabs
tagged(tabs, i, name) ==
    IF iterm_mcp_tag(name) \in {tabs[i].title, tabs[i].name} THEN tabs
    ELSE [tabs EXCEPT ![i].title = iterm_mcp_tag(name), ![i].name = iterm_mcp_tag(name)]

\* _get_tab_with_session(window, profile, new_tab)
_get_tab_with_session(tabs, name, new_tab) ==
    IF new_tab THEN default_tab_with_session(tabs, name, new_tab, FALSE)
    ELSE LET r == IF Matching(tabs, name) # {}
                  THEN [tabs |-> tabs, selected |-> First(Matching(tabs, name)),
                        created |-> FALSE]
                  ELSE default_tab_with_session(tabs, name, new_tab, TRUE)
         IN  [r EXCEPT !.tabs = tagged(r.tabs, r.selected, name)]

InitResolver ==
    /\ InitRemote
    /\ InitTasks
    /\ handle \in {h \in InitialHandles :
                      h._refresh_callback = "_init_async" /\ h._event_loop = "bg"
                      /\ h.refresh_callback = None}
    /\ last = NoLast
    /\ cr = IdleCR
    /\ hs = IdleHS
    /\ br = IdleBR
    /\ sc = IdleSC
    /\ wr = IdleWR
    /\ ex = IdleEX
    /\ \E w \in Windows, n \in ProfileNames, nt \in BOOLEAN :
          rs = [IdleRS EXCEPT !.tabs = w, !.profile = n, !.new_tab = nt]

\* one call of the resolver on the window
RS_Resolve ==
    /\ rs.calls < MaxResolves
    /\ LET r == _get_tab_with_session(rs.tabs, rs.profile, rs.new_tab)
       IN  rs' = [rs EXCEPT !.pc = "done", !.before = rs.tabs, !.tabs = r.tabs,
                            !.selected = r.selected,
                            !.session = <<r.selected, r.tabs[r.selected].current_session>>,
                            !.created = r.created,
                            !.calls = @ + 1, !.prevSel = rs.selected,
                            !.prevCreated = rs.created,
                            !.dirty = FALSE, !.changed = rs.dirty]
    /\ UNCHANGED <<mainVars, cr, hs, br, sc, wr, ex>>

\* between two resolutions the user renames a tab and its session
RS_Rename ==
    /\ rs.pc = "done"
    /\ rs.calls < MaxResolves
    /\ ~rs.dirty
    /\ \E i \in DOMAIN rs.tabs :
          /\ rs.tabs[i].current_session # None
          /\ rs' = [rs EXCEPT !.tabs[i].title = "zsh", !.tabs[i].name = "zsh",
                              !.dirty = TRUE, !.pc = "idle"]
    /\ UNCHANGED <<mainVars, cr, hs, br, sc, wr, ex>>

NextResolver == RS_Resolve \/ RS_Rename

SpecResolver == InitResolver /\ [][NextResolver]_vars

\* --------------- SpecStrategy: run_command inside _run_command_lock
TimeoutStep == 700
PollTimeouts == {k * TimeoutStep : k \in 0..MaxPollTimeout}

InitStrategy ==
    /\ InitRemote
    /\ InitTasks
    /\ handle \in {h \in InitialHandles :
                      h._refresh_callback = "_init_async" /\ h._event_loop = "bg"
                      /\ h.refresh_callback = None}
    /\ last = NoLast
    /\ cr = IdleCR
    /\ hs = IdleHS
    /\ br = IdleBR
    /\ rs = IdleRS
    /\ \E e \in {"yes", ""}, b \in BOOLEAN, u \in BOOLEAN, h \in BOOLEAN,
          p \in BOOLEAN, to \in PollTimeouts :
          sc = [IdleSC EXCEPT !.env = e, !.buffer = b, !.username = u,
                              !.hostname = h, !.prompts = p, !.timeout = to]
    /\ wr = IdleWR
    /\ ex = IdleEX

\* _get_prompt() with no id: the session's last prompt, None when none has
\* been recorded
_get_prompt(prompts) == IF prompts THEN "prompt" ELSE None

\* _shell_integration_enabled
_shell_integration_enabled(env, prompt_check) ==
    env = "yes" /\ prompt_check # None

\* lines 529-539: the probe and the choice of the strategy
SC_Probe ==
    /\ sc.pc = "idle"
    /\ sc' = [sc EXCEPT
                !.strategy = IF _shell_integration_enabled(sc.env, _get_prompt(sc.prompts))
                             THEN "STRUCTURED" ELSE "SENTINEL",
                !.pc = IF _shell_integration_enabled(sc.env, _get_prompt(sc.prompts))
                       THEN "structured_send" ELSE "sentinel_send"]
    /\ UNCHANGED <<mainVars, cr, hs, br, rs, wr, ex>>

\* lines 541-552: the command is sent and the last prompt fetched
SC_StructuredSend ==
    /\ sc.pc = "structured_send"
    /\ \E last_prompt \in {None, "prompt"} :
          sc' = IF last_prompt = None
                THEN [sc EXCEPT !.pc = "done", !.broken = "no_last_prompt",
                                !.via = "STRUCTURED",
                                !.result = "Shell integration appears broken"]
                ELSE [sc EXCEPT !.pc = "structured_wait"]
    /\ UNCHANGED <<mainVars, cr, hs, br, rs, wr, ex>>

\* lines 555-563: _wait_for_prompt answers, then _string_in_lines
SC_StructuredWait ==
    /\ sc.pc = "structured_wait"
    /\ \E ended \in BOOLEAN :
          sc' = IF ended
                THEN [sc EXCEPT !.pc = "done", !.via = "STRUCTURED", !.result = "content"]
                ELSE [sc EXCEPT !.pc = "done", !.broken = "no_command_end",
                                !.via = "STRUCTURED", !.result = "Command timeout"]
    /\ UNCHANGED <<mainVars, cr, hs, br, rs, wr, ex>>

\* max(0.0, timeout)
Max(a, b) == IF a >= b THEN a ELSE b

\* lines 448-457: the wrapper is sent, the deadline set
SC_SentinelSend ==
    /\ sc.pc = "sentinel_send"
    /\ sc' = [sc EXCEPT !.pc = "poll", !.deadline = sc.now + Max(0, sc.timeout),
                        !.sleep_s = InitialSleep]
    /\ UNCHANGED <<mainVars, cr, hs, br, rs, wr, ex>>

\* asyncio.sleep(min(sleep_s, remaining))
sleep_for_uncut(sleep_s, remaining) == sleep_s
sleep_for(sleep_s, remaining) == Min(sleep_s, remaining)

\* sleep_s = min(sleep_s * 1.5, 0.5)
next_sleep(sleep_s) == Min((sleep_s * 3) \div 2, SleepCap)

\* the time one snapshot of the tail can take, and a sleep can overrun
PollTook == {0, 30}
WakeLate == {0, 10}

\* lines 458-476: one snapshot of the tail and the search for the end marker
\* with a status; the timeout test and the sleep request
SC_Poll ==
    /\ sc.pc = "poll"
    /\ \E took \in PollTook, found \in BOOLEAN :
          LET now == sc.now + took
              remaining == sc.deadline - now
              p == [sc EXCEPT !.now = now, !.polls = @ + 1, !.found = found]
          IN  sc' = IF found THEN [p EXCEPT !.pc = "extract"]
                    ELSE IF remaining <= 0
                    THEN [p EXCEPT !.pc = "done", !.via = "SENTINEL",
                                   !.result = "TimeoutError"]
                    ELSE [p EXCEPT !.pc = "sleep", !.remaining = remaining,
                                   !.nap = sleep_for(sc.sleep_s, remaining),
                                   !.sleep_s = next_sleep(sc.sleep_s)]
    /\ UNCHANGED <<mainVars, cr, hs, br, rs, wr, ex>>

\* the sleep ends
SC_Wake ==
    /\ sc.pc = "sleep"
    /\ \E late \in WakeLate :
          sc' = [sc EXCEPT !.pc = "poll", !.now = @ + sc.nap + late]
    /\ UNCHANGED <<mainVars, cr, hs, br, rs, wr, ex>>

\* lines 482-510: the output between the markers is read and returned
SC_Extract ==
    /\ sc.pc = "extract"
    /\ sc' = [sc EXCEPT !.pc = "done", !.via = "SENTINEL", !.result = "output"]
    /\ UNCHANGED <<mainVars, cr, hs, br, rs, wr, ex>>

NextStrategy ==
    \/ SC_Probe
    \/ SC_StructuredSend
    \/ SC_StructuredWait
    \/ SC_SentinelSend
    \/ SC_Poll
    \/ SC_Wake
    \/ SC_Extract

\* every awaited remote call and sleep ends
SpecStrategy == InitStrategy /\ [][NextStrategy]_vars /\ WF_vars(NextStrategy)

\* --------------- SpecWrap: _wrap_with_markers and the payload it carries
\* Text is a sequence of one-character strings. A command is drawn from
\* CommandChars; U+00E9 stands for the one character e-acute, whose utf-8
\* encoding takes two bytes, and U+0060 for the one character backquote.
CommandChars == {"s", "h", "(", ")", "'", "U+00E9"}
Code ==
    [c \in CommandChars |->
        CASE c = "s" -> 115 [] c = "h" -> 104 [] c = "(" -> 40
          [] c = ")" -> 41 [] c = "'" -> 39 [] c = "U+00E9" -> 233]
Commands == UNION {[1..n -> CommandChars] : n \in 0..MaxCmdLen}

\* uuid.uuid4().hex[:12]: twelve hexadecimal digits
TokenLen == 12
Tokens ==
    {[i \in 1..TokenLen |-> "0"], [i \in 1..TokenLen |-> "f"],
     [i \in 1..TokenLen |-> IF i % 2 = 1 THEN "3" ELSE "c"]}

\* the base64 alphabet, value v at position v + 1
B64Alphabet ==
    <<"A", "B", "C", "D", "E", "F", "G", "H", "I", "J", "K", "L", "M", "N",
      "O", "P", "Q", "R", "S", "T", "U", "V", "W", "X", "Y", "Z", "a", "b",
      "c", "d", "e", "f", "g", "h", "i", "j", "k", "l", "m", "n", "o", "p",
      "q", "r", "s", "t", "u", "v", "w", "x", "y", "z", "0", "1", "2", "3",
      "4", "5", "6", "7", "8", "9", "+", "/">>

\* the fixed halves of the two markers and the tail after the token
BEGIN_HALF ==
    <<"_", "_", "P", "Y", "T", "E", "R", "M", "_", "M", "C", "P", "_", "B",
      "E", "G", "I", "N", "_", "_">>

END_HALF ==
    <<"_", "_", "P", "Y", "T", "E", "R", "M", "_", "M", "C", "P", "_", "E",
      "N", "D", "_", "_">>

TOKEN_TAIL ==
    <<"_", "_">>

\* the fixed text around the payload
PAYLOAD_PREFIX ==
    <<"U+0060", "p", "r", "i", "n", "t", "f", " ", "'", "%", "s", "'", " ",
      "'">>

PAYLOAD_SUFFIX ==
    <<"'", " ", "|", " ", "b", "a", "s", "e", "6", "4", " ", "-", "d",
      "U+0060">>

\* s.find(pat) >= 0
Contains(s, pat) ==
    \E i \in 0..(Len(s) - Len(pat)) : SubSeq(s, i + 1, i + Len(pat)) = pat

\* str.encode("utf-8") for code points below 2048
RECURSIVE encode_utf8(_)
encode_utf8(text) ==
    IF text = <<>> THEN <<>>
    ELSE LET cp == Code[Head(text)]
         IN (IF cp < 128 THEN <<cp>>
             ELSE <<192 + (cp \div 64), 128 + (cp % 64)>>)
            \o encode_utf8(Tail(text))

\* bytes.decode("utf-8"), onto the characters of CommandChars
Chr(cp) ==
    IF \E c \in CommandChars : Code[c] = cp
    THEN CHOOSE c \in CommandChars : Code[c] = cp
    ELSE "U+FFFD"
RECURSIVE decode_utf8(_)
decode_utf8(bytes) ==
    IF bytes = <<>> THEN <<>>
    ELSE IF bytes[1] < 128
         THEN <<Chr(bytes[1])>> \o decode_utf8(Tail(bytes))
    ELSE IF bytes[1] >= 192 /\ bytes[1] < 224 /\ Len(bytes) >= 2
            /\ bytes[2] >= 128 /\ bytes[2] < 192
         THEN <<Chr((bytes[1] - 192) * 64 + (bytes[2] - 128))>>
              \o decode_utf8(Tail(Tail(bytes)))
    ELSE <<"UnicodeDecodeError">>

\* base64.b64encode(...).decode("ascii"): three bytes make four digits, a
\* last group of one or two bytes is padded with "="
B64(v) == B64Alphabet[v + 1]
RECURSIVE b64encode(_)
b64encode(bytes) ==
    IF bytes = <<>> THEN <<>>
    ELSE IF Len(bytes) = 1
         THEN <<B64(bytes[1] \div 4), B64((bytes[1] % 4) * 16), "=", "=">>
    ELSE IF Len(bytes) = 2
         THEN <<B64(bytes[1] \div 4),
                B64((bytes[1] % 4) * 16 + (bytes[2] \div 16)),
                B64((bytes[2] % 16) * 4), "=">>
    ELSE <<B64(bytes[1] \div 4),
           B64((bytes[1] % 4) * 16 + (bytes[2] \div 16)),
           B64((bytes[2] % 16) * 4 + (bytes[3] \div 64)),
           B64(bytes[3] % 64)>>
         \o b64encode(SubSeq(bytes, 4, Len(bytes)))

\* base64 -d / base64.b64decode: four digits make three bytes, less one per
\* padding "=" in the last four; text of any other shape is an error
B64Value(c) == CHOOSE v \in 0..63 : B64Alphabet[v + 1] = c
IsB64Digit(c) == \E v \in 0..63 : B64Alphabet[v + 1] = c
IsB64Text(digits) ==
    /\ Len(digits) % 4 = 0
    /\ \A i \in 1..Len(digits) :
          \/ IsB64Digit(digits[i])
          \/ /\ digits[i] = "="
             /\ i >= Len(digits) - 1
             /\ i = Len(digits) - 1 => digits[Len(digits)] = "="
RECURSIVE b64decode(_)
b64decode(digits) ==
    IF digits = <<>> THEN <<>>
    ELSE IF digits[3] = "="
         THEN <<B64Value(digits[1]) * 4 + (B64Value(digits[2]) \div 16)>>
    ELSE IF digits[4] = "="
         THEN <<B64Value(digits[1]) * 4 + (B64Value(digits[2]) \div 16),
                (B64Value(digits[2]) % 16) * 16 + (B64Value(digits[3]) \div 4)>>
    ELSE <<B64Value(digits[1]) * 4 + (B64Value(digits[2]) \div 16),
           (B64Value(digits[2]) % 16) * 16 + (B64Value(digits[3]) \div 4),
           (B64Value(digits[3]) % 4) * 64 + B64Value(digits[4])>>
         \o b64decode(SubSeq(digits, 5, Len(digits)))

\* _sh_single_quote: every single quote of the value becomes '"'"'
\* and the whole is put between single quotes
RECURSIVE replace_quotes(_)
replace_quotes(value) ==
    IF value = <<>> THEN <<>>
    ELSE (IF Head(value) = "'" THEN <<"'", "\"", "'", "\"", "'">>
          ELSE <<Head(value)>>)
         \o replace_quotes(Tail(value))
_sh_single_quote_bare(value) == replace_quotes(value)
_sh_single_quote(value) == <<"'">> \o replace_quotes(value) \o <<"'">>

\* line 320: the command travels as the base64 text of its utf-8 bytes
cmd_b64_raw(command) == command
cmd_b64(command) == b64encode(encode_utf8(command))

\* lines 313-314: the two markers the scrollback is searched for
begin(token) == BEGIN_HALF \o token \o TOKEN_TAIL
end_prefix(token) == END_HALF \o token \o TOKEN_TAIL

\* lines 334-337
end_trampoline(token) ==
    <<"c", "o", "m", "m", "a", "n", "d", " ", "s", "h", " ", "-", "c", " ",
      "'", "p", "r", "i", "n", "t", "f", " ", "\"", "%", "s", "%", "s", ":",
      "%", "d", "\\", "n", "\"", " ", "\"">>
       \o END_HALF \o <<"\"", " ", "\"">> \o token
       \o <<"_", "_", "\"", " ", "\"", "$", "1", "\"", ";", " ", "e", "x",
            "i", "t", " ", "\"", "$", "1", "\"", "'", " ", "s", "h">>

\* lines 339-345
wrapped(command, token) ==
    <<"p", "r", "i", "n", "t", "f", " ", "\"", "%", "s", "%", "s", "\\", "n",
      "\"", " ", "\"">>
       \o BEGIN_HALF \o <<"\"", " ", "\"">> \o token \o <<"_", "_", "\"", ";", " ">>
       \o <<"i", "f", " ", "e", "v", "a", "l", " ", "\"", "U+0060", "p", "r",
            "i", "n", "t", "f", " ", "'", "%", "s", "'", " ">>
       \o _sh_single_quote(cmd_b64(command))
       \o <<" ", "|", " ", "b", "a", "s", "e", "6", "4", " ", "-", "d",
            "U+0060", "\"", ";", " ", "t", "h", "e", "n", " ">>
       \o end_trampoline(token) \o <<" ", "0", ";", " ">>
       \o <<"e", "l", "s", "e", " ">> \o end_trampoline(token)
       \o <<" ", "\"", "$", "?", "\"", ";", " ">>
       \o <<"f", "i">>

\* what the shell is handed by printf ... | base64 -d: the text
\* after the first PAYLOAD_PREFIX up to the next single quote, when
\* PAYLOAD_SUFFIX follows it
RECURSIVE UntilQuote(_)
UntilQuote(s) ==
    IF s = <<>> \/ Head(s) = "'" THEN <<>>
    ELSE <<Head(s)>> \o UntilQuote(Tail(s))
payload(text) ==
    IF ~Contains(text, PAYLOAD_PREFIX) THEN <<"no match">>
    ELSE LET i == CHOOSE k \in 0..(Len(text) - Len(PAYLOAD_PREFIX)) :
                     /\ SubSeq(text, k + 1, k + Len(PAYLOAD_PREFIX))
                           = PAYLOAD_PREFIX
                     /\ \A j \in 0..(k - 1) :
                           SubSeq(text, j + 1, j + Len(PAYLOAD_PREFIX))
                              # PAYLOAD_PREFIX
             rest == SubSeq(text, i + Len(PAYLOAD_PREFIX) + 1, Len(text))
             body == UntilQuote(rest)
         IN IF SubSeq(rest, Len(body) + 1, Len(body) + Len(PAYLOAD_SUFFIX))
                  = PAYLOAD_SUFFIX
            THEN body
            ELSE <<"no match">>

InitWrap ==
    /\ InitRemote
    /\ InitTasks
    /\ handle \in {h \in InitialHandles :
                      h._refresh_callback = "_init_async" /\ h._event_loop = "bg"
                      /\ h.refresh_callback = None}
    /\ last = NoLast
    /\ cr = IdleCR
    /\ hs = IdleHS
    /\ br = IdleBR
    /\ rs = IdleRS
    /\ sc = IdleSC
    /\ \E c \in Commands : wr = [IdleWR EXCEPT !.command = c]
    /\ ex = IdleEX

\* _wrap_with_markers(command), with the token uuid4 gives it
WR_Wrap ==
    /\ wr.pc = "idle"
    /\ \E token \in Tokens :
          wr' = [wr EXCEPT !.pc = "wrapped", !.token = token,
                           !.wrapped = wrapped(wr.command, token),
                           !.begin = begin(token),
                           !.end_prefix = end_prefix(token)]
    /\ UNCHANGED <<mainVars, cr, hs, br, rs, sc, ex>>

\* the shell decodes the payload of the wrapper it was sent
WR_Decode ==
    /\ wr.pc = "wrapped"
    /\ LET digits == payload(wr.wrapped)
       IN wr' = [wr EXCEPT !.pc = "decoded",
                           !.decoded = IF IsB64Text(digits)
                                       THEN decode_utf8(b64decode(digits))
                                       ELSE <<"binascii.Error">>]
    /\ UNCHANGED <<mainVars, cr, hs, br, rs, sc, ex>>

NextWrap ==
    \/ WR_Wrap
    \/ WR_Decode

SpecWrap == InitWrap /\ [][NextWrap]_vars

\* --------------- SpecExtract: the output between the markers (lines 456-510)
\* The session's lines are numbered from 0 for ever; ex.lines holds every
\* line so far, line number n at position n + 1, and ex.overflow is the
\* number of lines that have scrolled off the top and can no longer be read.
\* The windows of 300 and 500 lines are scaled down to a few lines.
TailProbeLines == 2
WindowFloor == 2
\* no line: the None of end_line and begin_line, the -1 of str.find
NoLine == -1

\* the two markers of this invocation
TheBegin == begin([i \in 1..TokenLen |-> "0"])
TheEndPrefix == end_prefix([i \in 1..TokenLen |-> "0"])

Line(string, hard_eol) == [string |-> string, hard_eol |-> hard_eol]
PROMPT == <<"$", " ">>
HELLO == <<"h", "e", "l", "l", "o">>
HI == <<"h", "i">>
\* lines of the history before the command, of its output, and the line with
\* the end marker: the marker alone, or appended to output without a newline
OutputLines == {Line(HELLO, TRUE), Line(HI, FALSE), Line(PROMPT, TRUE)}
EndLines ==
    {Line(TheEndPrefix \o <<":", "0">>, TRUE),
     Line(TheEndPrefix \o <<":", "1", "7">>, TRUE),
     Line(HI \o TheEndPrefix \o <<":", "0">>, TRUE)}
SeqsUpTo(S, n) == UNION {[1..k -> S] : k \in 0..n}

\* s.find(pat): the first position, counted from 0, or -1
Find(s, pat) ==
    IF Contains(s, pat)
    THEN CHOOSE i \in 0..(Len(s) - Len(pat)) :
            /\ SubSeq(s, i + 1, i + Len(pat)) = pat
            /\ \A j \in 0..(i - 1) : SubSeq(s, j + 1, j + Len(pat)) # pat
    ELSE NoLine

\* end_re.search(s), line 449: the end-marker prefix, a colon, an optional
\* minus sign and at least one digit
Digits == {"0", "1", "2", "3", "4", "5", "6", "7", "8", "9"}
end_re_search(s) ==
    \E i \in 0..(Len(s) - Len(TheEndPrefix) - 2) :
       /\ SubSeq(s, i + 1, i + Len(TheEndPrefix) + 1) = TheEndPrefix \o <<":">>
       /\ \/ s[i + Len(TheEndPrefix) + 2] \in Digits
          \/ /\ s[i + Len(TheEndPrefix) + 2] = "-"
             /\ Len(s) >= i + Len(TheEndPrefix) + 3
             /\ s[i + Len(TheEndPrefix) + 3] \in Digits

\* async_get_contents(first_line, number_of_lines)
async_get_contents(e, first_line, number_of_lines) ==
    [i \in 1..number_of_lines |-> e.lines[first_line + i]]

\* _snapshot_tail_lines(max_lines): one transaction
_snapshot_tail_lines(e, max_lines) ==
    LET overflow == e.overflow
        total == Len(e.lines) - e.overflow
        bottom_exclusive == overflow + total
        start == Max(overflow, bottom_exclusive - max_lines)
    IN IF max_lines <= 0 THEN [start |-> 0, lines |-> <<>>]
       ELSE IF total <= 0 THEN [start |-> overflow, lines |-> <<>>]
       ELSE [start |-> start,
             lines |-> async_get_contents(e, start, bottom_exclusive - start)]

\* _snapshot_range(first_line, last_line_inclusive): one transaction
_snapshot_range(e, first_line, last_line_inclusive) ==
    LET overflow == e.overflow
        total == Len(e.lines) - e.overflow
        bottom_exclusive == overflow + total
        start == Max(overflow, first_line)
        end_exclusive == Min(bottom_exclusive, last_line_inclusive + 1)
    IN IF last_line_inclusive < first_line
       THEN [start |-> first_line, lines |-> <<>>]
       ELSE IF total <= 0 THEN [start |-> overflow, lines |-> <<>>]
       ELSE IF end_exclusive <= start THEN [start |-> start, lines |-> <<>>]
       ELSE [start |-> start,
             lines |-> async_get_contents(e, start, end_exclusive - start)]

\* _render_lines_until_end_marker
RECURSIVE _render_lines_until_end_marker(_, _)
_render_lines_until_end_marker(lines, prefix) ==
    IF lines = <<>> THEN <<>>
    ELSE LET s == Head(lines).string
             pos == Find(s, prefix \o <<":">>)
         IN IF pos # NoLine
            THEN (IF pos > 0 THEN SubSeq(s, 1, pos) ELSE <<>>)
            ELSE s \o (IF Head(lines).hard_eol THEN <<"\n">> ELSE <<>>)
                 \o _render_lines_until_end_marker(Tail(lines), prefix)

\* the last position of a block, counted from 0, whose line satisfies P
LastIndex(block, P(_)) ==
    IF \E i \in 1..Len(block) : P(block[i].string)
    THEN (CHOOSE i \in 1..Len(block) :
             /\ P(block[i].string)
             /\ \A j \in (i + 1)..Len(block) : ~P(block[j].string)) - 1
    ELSE NoLine
HasBegin(s) == Contains(s, TheBegin)

InitExtract ==
    /\ InitRemote
    /\ InitTasks
    /\ handle \in {h \in InitialHandles :
                      h._refresh_callback = "_init_async" /\ h._event_loop = "bg"
                      /\ h.refresh_callback = None}
    /\ last = NoLast
    /\ cr = IdleCR
    /\ hs = IdleHS
    /\ br = IdleBR
    /\ rs = IdleRS
    /\ sc = IdleSC
    /\ wr = IdleWR
    /\ \E h \in SeqsUpTo({Line(PROMPT, TRUE)}, MaxHistory),
          o \in SeqsUpTo(OutputLines, MaxOutput), l \in EndLines :
          \E ov \in 0..(Len(h) + 1) :
             ex = [IdleEX EXCEPT
                      !.pc = "tail",
                      !.lines = h \o <<Line(TheBegin, TRUE)>> \o o \o <<l>>,
                      !.overflow = ov]

\* the terminal prints one more line; when its scrollback is full the
\* oldest line scrolls off the top
EX_Scroll ==
    /\ ex.pc \in {"tail", "overflow", "search", "content"}
    /\ ex.scrolls < MaxScroll
    /\ \E dropped \in {0, 1} :
          ex' = [ex EXCEPT !.lines = Append(@, Line(PROMPT, FALSE)),
                           !.overflow = @ + dropped,
                           !.scrolls = @ + 1]
    /\ UNCHANGED <<mainVars, cr, hs, br, rs, sc, wr>>

\* lines 458-468: one poll of the tail for the end marker
EX_Tail ==
    /\ ex.pc = "tail"
    /\ LET snap == _snapshot_tail_lines(ex, TailProbeLines)
           i == LastIndex(snap.lines, end_re_search)
       IN ex' = IF i # NoLine
                THEN [ex EXCEPT !.pc = "overflow", !.end_line = snap.start + i]
                ELSE ex
    /\ UNCHANGED <<mainVars, cr, hs, br, rs, sc, wr>>

\* lines 484-489: the overflow counter is read, the first window chosen
EX_Overflow ==
    /\ ex.pc = "overflow"
    /\ ex' = [ex EXCEPT !.pc = "search", !.overflow_read = ex.overflow,
                        !.window = Max(WindowFloor, TailProbeLines)]
    /\ UNCHANGED <<mainVars, cr, hs, br, rs, sc, wr>>

\* lines 490-503: one turn of the backward search for the begin marker
begin_line(start, returned_start, i) == start + i
EX_Search ==
    /\ ex.pc = "search"
    /\ LET start == Max(ex.overflow_read, ex.end_line - ex.window)
           snap == _snapshot_range(ex, start, ex.end_line)
           i == LastIndex(snap.lines, HasBegin)
       IN ex' = IF i # NoLine
                THEN [ex EXCEPT !.pc = "content",
                                !.begin_line = begin_line(start, snap.start, i),
                                !.turns = @ + 1]
                ELSE IF start = ex.overflow_read
                THEN [ex EXCEPT !.pc = "content", !.turns = @ + 1]
                ELSE [ex EXCEPT !.window = @ * 2, !.turns = @ + 1]
    /\ UNCHANGED <<mainVars, cr, hs, br, rs, sc, wr>>

\* lines 506-510: the output block is read and rendered; the rendered text
\* is the whole of what is returned
EX_Content ==
    /\ ex.pc = "content"
    /\ LET content_start == IF ex.begin_line # NoLine
                            THEN ex.begin_line + 1
                            ELSE ex.overflow_read
           snap == _snapshot_range(ex, content_start, ex.end_line)
       IN ex' = [ex EXCEPT !.pc = "done",
                           !.content_start = content_start,
                           !.result =
                              [output |-> _render_lines_until_end_marker(
                                             snap.lines, TheEndPrefix)]]
    /\ UNCHANGED <<mainVars, cr, hs, br, rs, sc, wr>>

NextExtract ==
    \/ EX_Scroll
    \/ EX_Tail
    \/ EX_Overflow
    \/ EX_Search
    \/ EX_Content

SpecExtract == InitExtract /\ [][NextExtract]_vars

\* ------------------------------------------------ claims on SpecHandle
\* the last call was validated_state and the control plane has not changed since
JustValidated == last.op = "validated_state" /\ last.run >= 1

\* a reason for validated_state to fail, read off the Handle it was given
ValidationMustFail(h) ==
    \/ h.connection \notin wsOpen
    \/ loopClosed
    \/ fault # "none"
    \/ sessTab[h.session.session_id] = None
    \/ tabWin[sessTab[h.session.session_id]] = None

\* C5: validated() raises nothing, and returns false when the connection is
\* not live, the application cannot be fetched, the session id does not
\* resolve, the owning window/tab is unknown, or a lookup raises.
C5_ValidatedNeverRaises ==
    JustValidated =>
        /\ last.exc = "none"
        /\ (ValidationMustFail(last.before) => ~last.ok)

C5_Witness ==
    /\ JustValidated
    /\ fault = "lookup_raise"
    /\ last.before.connection \in wsOpen
    /\ ~loopClosed
    /\ ~last.ok

\* C6: when validated() returns true the Handle holds the live session of its
\* session id and the tab and window the control plane reports as owning it,
\* whatever tab and window it held before.
C6_ValidatedConsistent ==
    (JustValidated /\ last.ok) =>
        LET sid == last.before.session.session_id
            h == last.after
        IN  /\ sessTab[sid] # None
            /\ h.session = get_session_by_id(sid, App(last.before.connection))
            /\ h.tab = sessTab[sid]
            /\ tabWin[h.tab] # None
            /\ h.window = tabWin[h.tab]

C6_Witness ==
    /\ JustValidated
    /\ last.ok
    /\ last.before.tab # last.after.tab
    /\ last.before.window # last.after.window

\* C7: a second validated() right after a first, the control plane unchanged
\* in between, returns the same boolean and leaves every field of the Handle
\* as the first call left it.
C7_ValidatedIdempotent ==
    (last.op = "validated_state" /\ last.run = 2) =>
        /\ last.ok = last.prevOk
        /\ last.after = last.before

C7_Witness ==
    /\ last.op = "validated_state"
    /\ last.run = 2
    /\ last.ok
    /\ last.after.tab # "tab1"

\* the fields only refresh_from writes are as before the call
NoRefreshDone ==
    /\ last.arg = NotAHandle
    /\ last.after.connection = last.before.connection
    /\ last.after.profile = last.before.profile
    /\ last.after.is_hotkey_window = last.before.is_hotkey_window
    /\ last.after.refresh_callback = last.before.refresh_callback
    /\ last.after._event_loop = last.before._event_loop

\* C8: ensure_state on a Handle that fails validation, with neither a stored
\* nor a supplied callback, raises RuntimeError and performs no refresh_from.
C8_NoCallbackRaises ==
    (/\ last.op = "ensure_state"
     /\ ~last.ok
     /\ last.supplied = None
     /\ last.before.refresh_callback = None) =>
        /\ last.exc = "RuntimeError"
        /\ last.invoked = <<>>
        /\ NoRefreshDone
        /\ last.after.window = last.before.window
        /\ last.after.tab = last.before.tab

C8_Witness ==
    /\ last.op = "ensure_state"
    /\ ~last.ok
    /\ last.supplied = None
    /\ last.before.refresh_callback = None
    /\ last.exc = "RuntimeError"

\* the fields refresh_from copies are those of new_state
CopiedFrom(h, new_state) ==
    /\ h.connection = new_state.connection
    /\ h.app = new_state.app
    /\ h.window = new_state.window
    /\ h.tab = new_state.tab
    /\ h.session = new_state.session
    /\ h.profile = new_state.profile
    /\ h.is_hotkey_window = new_state.is_hotkey_window
    /\ h.refresh_callback = new_state.refresh_callback

\* C9: ensure_state awaits a callback only when validated() returned false;
\* on success none is awaited and nothing is refreshed; on failure with a
\* callback at hand exactly one is awaited, the supplied one if given and
\* else the stored one, and the Handle it returns is copied by refresh_from.
C9_CallbackIffInvalid ==
    last.op = "ensure_state" =>
        /\ (last.ok => (last.invoked = <<>> /\ last.exc = "none" /\ NoRefreshDone))
        /\ ((~last.ok /\ last.supplied # None) => last.invoked = <<last.supplied>>)
        /\ ((~last.ok /\ last.supplied = None /\ last.before.refresh_callback # None)
               => last.invoked = <<last.before.refresh_callback>>)
        /\ (IsHandle(last.arg) =>
               (last.exc = "none" /\ CopiedFrom(last.after, last.arg)))
        /\ ((last.exc = "none" /\ ~last.ok) => IsHandle(last.arg))

C9_Witness ==
    /\ last.op = "ensure_state"
    /\ ~last.ok
    /\ last.supplied = "supplied_cb"
    /\ last.before.refresh_callback = "stored_cb"
    /\ last.invoked = <<"supplied_cb">>
    /\ IsHandle(last.arg)
    /\ last.after.connection # last.before.connection

\* C10: refresh_from copies connection, app, window, tab, session, profile,
\* hotkey flag and refresh callback from another Handle and leaves the
\* receiver's execution lock alone; given anything else it fails with a type
\* error and leaves every field of the receiver as it was.
C10_RefreshAllOrNothing ==
    last.op = "refresh_from" =>
        IF IsHandle(last.arg)
        THEN /\ last.exc = "none"
             /\ CopiedFrom(last.after, last.arg)
             /\ last.after._run_command_lock = last.before._run_command_lock
        ELSE /\ last.exc = "TypeError"
             /\ last.after = last.before

C10_Witness ==
    /\ last.op = "refresh_from"
    /\ IsHandle(last.arg)
    /\ last.after.profile # last.before.profile
    /\ last.after._run_command_lock # last.arg._run_command_lock

\* ------------------------------------------------------ claims on Spec
\* C1: at most one run_command invocation at a time is inside the section
\* that selects a strategy, sends the command text and reads the output, and
\* it holds the Handle's lock; an invocation that found the lock taken stays
\* queued outside the section
C1_CommandsSerialized ==
    /\ Cardinality({t \in Tasks : task[t].pc \in Section}) <= 1
    /\ \A t \in Tasks :
          task[t].pc \in Section =>
             /\ task[t].lk = handle._run_command_lock
             /\ lockHolder[task[t].lk] = t
    /\ \A t \in Tasks :
          task[t].pc = "rc_lock" =>
             \E i \in DOMAIN lockWaiters[task[t].lk] : lockWaiters[task[t].lk][i] = t

\* one command is in flight while the other invocation waits for the lock
C1_Witness ==
    \E t, u \in Tasks :
       /\ task[t].pc \in InFlight
       /\ task[u].pc = "rc_lock"
       /\ lockHolder[task[u].lk] = t

\* C2 as stated: the Handle's connection and session references are never
\* replaced while some command's text is sent and its output not yet read
C2_NoRefreshWhileInFlight ==
    [][handle'.connection # handle.connection
          => \A t \in Tasks : task[t].pc \notin InFlight]_vars

\* the step is one task's resumption inside ensure_state's callback await or
\* _refresh_async, where refresh_from is called
RefreshStepOf(t) ==
    /\ task[t].pc \in {"cb_wait", "gs_init"}
    /\ task'[t] # task[t]

\* C3 as stated: the Handle's connection/app/window/tab/session/profile
\* change only in a refresh_from step of a task that holds a lock
C3_OnlyRefreshFromUnderLock ==
    [][<<handle.connection, handle.app, handle.window, handle.tab,
         handle.session, handle.profile>>
          # <<handle'.connection, handle'.app, handle'.window, handle'.tab,
              handle'.session, handle'.profile>>
          => \E t \in Tasks :
                /\ RefreshStepOf(t)
                /\ \/ clientLock = t
                   \/ lockHolder[handle._run_command_lock] = t]_vars

\* C4 as stated: a finished call whose method raised ConnectionClosed, and
\* whose refresh callback did not itself fail, ran the method exactly twice
C4_OneRefreshOneRetry ==
    \A t \in Tasks :
       (/\ task[t].pc = "done"
        /\ task[t].cc = "method"
        /\ task[t].result \notin {"CallbackError", "TypeError"})
          => task[t].runs = 2

\* C28: text is sent to the session only by an invocation that holds the
\* Handle's execution lock: no invocation has its "cd" on the way to the
\* session while another invocation's command is in flight
C28_CdOnlyUnderLock ==
    \A t \in Tasks :
       task[t].pc = "rc_cd"
          => \A u \in Tasks \ {t} : task[u].pc \notin InFlight

\* C30: the Handle a Client holds has a stored refresh callback, so no
\* validated method called on it ends with the error ensure_state raises
\* when it has no callback
C30_StoredCallbackSet ==
    \A t \in Tasks : task[t].pc = "done" => task[t].result # "RuntimeError"

\* ------------------------------------------------ claims on SpecConnect
\* the transport failed transiently at every attempt but the last
TransientThenOk(log) ==
    /\ Len(log) >= 1
    /\ log[Len(log)] = "ok"
    /\ \A i \in 1..(Len(log) - 1) : log[i] \in _TRANSIENT_CONNECT_ERRNOS

\* C11 as stated: k transient failures and a success give the connection
\* after exactly k+1 attempts, and every delay slept is at most max_delay_s
C11_EveryDelayCapped ==
    /\ cr.result = "connection" =>
          /\ TransientThenOk(cr.log)
          /\ cr.attempts = Len(cr.log)
          /\ Len(cr.slept) = Len(cr.log) - 1
    /\ \A i \in DOMAIN cr.slept : cr.slept[i] <= cr.max_delay_s

\* C11, amended: k transient failures and a success give the connection after
\* exactly k+1 attempts with k sleeps between them; the first delay slept is
\* initial_delay_s, every later one is at most max_delay_s, so every delay is
\* at most the cap when initial_delay_s is
C11_RetriesThenSucceeds ==
    /\ cr.result = "connection" =>
          /\ TransientThenOk(cr.log)
          /\ cr.attempts = Len(cr.log)
          /\ Len(cr.slept) = Len(cr.log) - 1
    /\ \A i \in DOMAIN cr.slept :
          /\ i = 1 => cr.slept[i] = cr.initial_delay_s
          /\ i > 1 => cr.slept[i] <= cr.max_delay_s
          /\ cr.initial_delay_s <= cr.max_delay_s => cr.slept[i] <= cr.max_delay_s

\* two refusals, then success on the third attempt before the deadline, the
\* second delay cut down to the cap
C11_Witness ==
    /\ cr.result = "connection"
    /\ cr.attempts = 3
    /\ cr.now < cr.deadline
    /\ cr.backoff = 2
    /\ cr.slept = <<1, 1>>

\* C12: a transient failure observed at or after the deadline ends the call
\* with TimeoutError and no attempt follows it (only a failure before the
\* deadline is followed by a sleep); a call whose attempts all failed
\* transiently ends with TimeoutError; timeout_s = 0 allows one attempt; the
\* call always ends
C12_AlwaysFailingTimesOut ==
    /\ [](cr.pc = "sleep" => cr.now < cr.deadline)
    /\ []((/\ cr.pc = "done"
           /\ \A i \in DOMAIN cr.log : cr.log[i] \in _TRANSIENT_CONNECT_ERRNOS)
            => /\ cr.result = "TimeoutError"
               /\ cr.now >= cr.deadline
               /\ cr.attempts = Len(cr.log))
    /\ [](cr.timeout_s = 0 => cr.attempts <= 1)
    /\ <>(cr.pc = "done")

\* the second refusal is observed exactly at the deadline
C12_Witness ==
    /\ cr.result = "TimeoutError"
    /\ cr.attempts = 2
    /\ cr.now = cr.deadline

\* C13: an attempt that fails with a non-transient errno ends the call with
\* that OSError at once: no sleep and no attempt after it, whatever the
\* deadline
C13_FatalNotRetried ==
    (Len(cr.log) >= 1 /\ cr.log[Len(cr.log)] \in FatalErrnos)
       => /\ cr.pc = "done"
          /\ cr.result = "OSError"
          /\ cr.attempts = Len(cr.log)
          /\ Len(cr.slept) = Len(cr.log) - 1

\* a refusal, a sleep, then a fatal error well before the deadline
C13_Witness ==
    /\ cr.result = "OSError"
    /\ cr.attempts = 2
    /\ cr.now < cr.deadline

\* ---------------------------------------------- claims on SpecHandshake
\* C14: in one handshake sequence fresh credentials are requested after an
\* "unauthorized" response at most once and one more attempt follows; an
\* "unauthorized" response with fresh credentials, or a request that brings
\* none, ends the sequence with the authentication failure; so there are at
\* most two unauthorized attempts and the sequence ends
C14_UnauthorizedRetriedOnce ==
    /\ [](/\ hs.forced <= 1
          /\ hs.unauthorized <= 2
          /\ hs.attempts <= hs.forced + 1
          /\ hs.forced = 1 => hs.unauthorized >= 1)
    /\ []((hs.pc = "connect" /\ hs.unauthorized >= 1)
             => hs.have_fresh_cookie /\ hs.forced = 1 /\ hs.attempts = 1)
    /\ [](hs.unauthorized = 2 => hs.pc = "done" /\ hs.result = "Unauthorized")
    /\ [](hs.pc = "connect" => <>(hs.pc = "done"))

\* a stale cookie refused, fresh credentials obtained, the retry refused too
C14_Witness ==
    /\ hs.pc = "done"
    /\ hs.result = "Unauthorized"
    /\ hs.unauthorized = 2
    /\ hs.forced = 1

\* ------------------------------------------------- claims on SpecClient
\* a get_state() call whose coroutine has finished and whose caller got its
\* result
Returned(t) ==
    /\ br.call[t].op = "get_state"
    /\ br.call[t].pc = "done"
    /\ task[t].pc = "done"
    /\ br.call[t].res \notin {"TimeoutError", "RuntimeError"}

\* C15 as stated: a get_state() whose ensure_state succeeds calls ensure_state
\* once, builds no new state through the gateway and returns the Handle
\* object the Client held
C15_NoNewStateWhenEnsureSucceeds ==
    \A t \in Tasks :
       (Returned(t) /\ ~br.call[t].exc)
          => /\ br.call[t].ens = 1
             /\ br.call[t].made = 0
             /\ br.call[t].ret = br.call[t].lk0

\* C15: a get_state() whose ensure_state succeeds calls ensure_state once,
\* never enters _refresh_async, builds a new state through the gateway only
\* inside ensure_state (its callback is the Client's _init_async, awaited at
\* most once, when validation failed) and returns "ok" with the Handle
\* object the Client held
C15_EnsureOnceSameObject ==
    \A t \in Tasks :
       (Returned(t) /\ ~br.call[t].exc)
          => /\ br.call[t].ens = 1
             /\ br.call[t].gwR = 0
             /\ br.call[t].gwE <= 1
             /\ br.call[t].made = br.call[t].gwE
             /\ br.call[t].ret = br.call[t].lk0
             /\ br.call[t].res = "ok"

\* ensure_state succeeded by refreshing through the gateway
C15_Witness ==
    \E t \in Tasks :
       /\ Returned(t)
       /\ ~br.call[t].exc
       /\ br.call[t].ens = 1
       /\ br.call[t].made = 1
       /\ br.call[t].ret = br.call[t].lk0

\* C16 as stated: when ensure_state raises during get_state() one new state
\* is built, copied into the same Handle object, ensure_state is not called
\* again and the caller gets the Handle, no error
C16_RefreshAlwaysSucceeds ==
    \A t \in Tasks :
       (Returned(t) /\ br.call[t].exc)
          => /\ br.call[t].ens = 1
             /\ br.call[t].gwR = 1
             /\ br.call[t].made = 1
             /\ br.call[t].ret = br.call[t].lk0
             /\ br.call[t].res = "ok"

\* _refresh_async of a get_state() call returns
RefreshReturns(t) ==
    /\ br.call[t].op = "get_state"
    /\ task[t].pc = "gs_init"
    /\ task'[t].pc = "done"
    /\ task'[t].result = "ok"

\* C16: when ensure_state raises during get_state(), ensure_state is not
\* called again and _refresh_async asks the gateway once; if the gateway
\* gives a state it is copied into the same Handle object with refresh_from
\* and the caller gets that object; if the gateway raises, that error
\* reaches the caller and no state was built; ensure_state's own error
\* never reaches the caller
C16_OneRefreshSameObject ==
    /\ [](\A t \in Tasks :
            (Returned(t) /\ br.call[t].exc)
               => /\ br.call[t].ens = 1
                  /\ br.call[t].gwR = 1
                  /\ br.call[t].gwE <= 1
                  /\ br.call[t].ret = br.call[t].lk0
                  /\ br.call[t].res \in {"ok", "CallbackError", "ConnectionClosed"}
                  /\ br.call[t].res = "ok" <=> br.call[t].made = 1
                  /\ br.call[t].res # "ok" => br.call[t].made = 0)
    /\ [][\A t \in Tasks :
            RefreshReturns(t)
               => /\ handle' = refresh_from(handle, NewState(nextConn, ResolvedSid,
                                                             "_init_async")).h
                  /\ handle'._run_command_lock = handle._run_command_lock
                  /\ handle'.connection = nextConn]_vars

\* ensure_state raised, the refresh gave the same object new contents
C16_Witness ==
    \E t \in Tasks :
       /\ Returned(t)
       /\ br.call[t].exc
       /\ br.call[t].res = "ok"
       /\ br.call[t].gwR = 1
       /\ br.call[t].ret = br.call[t].lk0
       /\ handle.connection # 1

\* a step of a close() call of t
CloseStep(t) ==
    /\ br'.call[t].op = "close"
    /\ br'.call[t] # br.call[t]

\* C17: a close() called after a close() has returned changes nothing: the
\* loop, the pending stop request and the thread stay as they were
C17_SecondCloseChangesNothing ==
    [][\A t \in Tasks :
         (CloseStep(t) /\ br'.call[t].late)
            => /\ br'.loop = br.loop
               /\ br'.stop = br.stop
               /\ br'.alive = br.alive]_vars

\* C18: no get_state() or get_state_async() call holds the background loop
\* in a synchronous wait for a coroutine that only that loop can run
C18_NeverBlocksOwnLoop ==
    \A t \in Tasks :
       ~(/\ br.call[t].op \in GetOps
         /\ br.call[t].pc = "waiting"
         /\ br.blocked = t
         /\ task[t].pc # "done")

\* C19: every coroutine started through the Client or through a public
\* validated method of the Handle runs on the background loop, whichever
\* thread called, and the Handle's loop is the background loop
C19_EverythingOnBackgroundLoop ==
    /\ \A t \in Tasks : br.call[t].on \in {"none", "bg"}
    /\ handle._event_loop = "bg"
    /\ loop(handle) = "bg"

\* a method called from another thread ran on the background loop and
\* refreshed the Handle
C19_Witness ==
    \E t \in Tasks :
       /\ br.call[t].op = "method"
       /\ br.call[t].ctx = "other"
       /\ br.call[t].on = "bg"
       /\ task[t].pc = "done"
       /\ task[t].result = "ok"
       /\ handle.connection # 1

\* ------------------------------------------------ claims on SpecResolver
\* C20 as stated: with new_tab=False and a tab whose current session carries
\* the tag of the requested profile, the first such tab and its session are
\* returned and no tab is created
C20_FirstTaggedTabReused ==
    (rs.pc = "done" /\ ~rs.new_tab /\ TaggedTabs(rs.before, rs.profile) # {})
       => /\ rs.selected = First(TaggedTabs(rs.before, rs.profile))
          /\ ~rs.created
          /\ Len(rs.tabs) = Len(rs.before)

\* the tabs with a current session that carries the tag and whose
\* "profileName" is the requested profile's name
TaggedOfProfile(tabs, name) ==
    {i \in TaggedTabs(tabs, name) : tabs[i].profileName = name}

\* C20: with new_tab=False and a tab whose current session carries the tag
\* of the requested profile and reports that profile as its profileName, the
\* first such tab and its current session are returned, no tab is created
\* and the window is left as it was; a tagged tab of another profileName is
\* passed over
C20_FirstTaggedTabOfProfileReused ==
    (rs.pc = "done" /\ ~rs.new_tab /\ TaggedOfProfile(rs.before, rs.profile) # {})
       => /\ rs.selected = First(TaggedOfProfile(rs.before, rs.profile))
          /\ rs.session = <<rs.selected, "session">>
          /\ ~rs.created
          /\ rs.tabs = rs.before

\* the second tab is reused: the first carries the tag under another
\* profileName
C20_Witness ==
    /\ rs.pc = "done"
    /\ ~rs.new_tab
    /\ Len(rs.before) = 2
    /\ 1 \in TaggedTabs(rs.before, rs.profile)
    /\ rs.selected = 2
    /\ ~rs.created

\* C21: with new_tab=False, a resolution that creates a tab leaves its title
\* and its session's name equal to the tag, and a resolution that follows
\* another one with no change of the window in between returns the tab and
\* session the earlier one returned, creates no tab and leaves the window
\* as it is
C21_ResolutionsConverge ==
    /\ (rs.pc = "done" /\ ~rs.new_tab /\ rs.created)
          => /\ rs.tabs[rs.selected].title = iterm_mcp_tag(rs.profile)
             /\ rs.tabs[rs.selected].name = iterm_mcp_tag(rs.profile)
             /\ Len(rs.tabs) = Len(rs.before) + 1
    /\ (rs.pc = "done" /\ rs.calls >= 2 /\ ~rs.new_tab /\ ~rs.changed)
          => /\ rs.selected = rs.prevSel
             /\ rs.session = <<rs.prevSel, "session">>
             /\ ~rs.created
             /\ rs.tabs = rs.before

\* the first resolution created a tab, the second returned it
C21_Witness ==
    /\ rs.pc = "done"
    /\ rs.calls = 2
    /\ ~rs.new_tab
    /\ ~rs.changed
    /\ rs.prevCreated
    /\ ~rs.created
    /\ rs.selected = rs.prevSel
    /\ Len(rs.tabs) = 2

\* ------------------------------------------------ claims on SpecStrategy
\* C22: STRUCTURED is selected only when the buffer is non-empty, username
\* and hostname are non-empty and a prompt has been recorded
C22_StructuredOnlyWhenProbePasses ==
    sc.strategy = "STRUCTURED"
       => sc.buffer /\ sc.username /\ sc.hostname /\ sc.prompts

\* C23: when the structured strategy finds no last prompt or sees no
\* command end in time, the result is the sentinel strategy's
C23_StructuredDegradesToSentinel ==
    (sc.pc = "done" /\ sc.broken # "none") => sc.via = "SENTINEL"

\* C24: the sentinel strategy returns output only after a poll that found
\* the end marker; it fails with TimeoutError only once the deadline has
\* passed with no poll finding it; every sleep it asks for is at most the
\* cap and at most the time left; it ends
C24_SentinelPollingBounded ==
    /\ []((sc.pc = "done" /\ sc.via = "SENTINEL" /\ sc.result = "output")
             => sc.found /\ sc.polls >= 1)
    /\ []((sc.pc = "done" /\ sc.via = "SENTINEL" /\ ~sc.found)
             => sc.result = "TimeoutError" /\ sc.now >= sc.deadline /\ sc.polls >= 1)
    /\ [](sc.pc = "sleep"
             => /\ sc.nap <= SleepCap
                /\ sc.nap <= sc.remaining
                /\ sc.nap > 0
                /\ sc.now + sc.nap <= sc.deadline)
    /\ [](sc.pc = "poll" => <>(sc.pc = "done"))

\* the sleep has reached its cap and the timeout has ended the polling
C24_Witness ==
    /\ sc.pc = "done"
    /\ sc.result = "TimeoutError"
    /\ sc.sleep_s = SleepCap
    /\ sc.polls >= 7

\* ---------------------------------------------------- claims on SpecWrap
\* C26: for every command, the wrapper text holds neither "(" nor ")", and
\* neither the begin marker nor the end-marker prefix as a contiguous piece
\* of text: only their halves, the fixed half and the token with its tail,
\* as separate printf arguments; the two markers returned with the wrapper
\* are the fixed halves followed by one and the same token.
C26_WrapperHidesMarkers ==
    wr.pc # "idle" =>
       /\ \A i \in 1..Len(wr.wrapped) : wr.wrapped[i] \notin {"(", ")"}
       /\ ~Contains(wr.wrapped, wr.begin)
       /\ ~Contains(wr.wrapped, wr.end_prefix)
       /\ Contains(wr.wrapped, BEGIN_HALF)
       /\ Contains(wr.wrapped, END_HALF)
       /\ Contains(wr.wrapped, wr.token \o TOKEN_TAIL)
       /\ wr.token \in Tokens
       /\ wr.begin = BEGIN_HALF \o wr.token \o TOKEN_TAIL
       /\ wr.end_prefix = END_HALF \o wr.token \o TOKEN_TAIL

\* a wrapper was built for a command that itself holds both parentheses
C26_Witness ==
    /\ wr.pc = "wrapped"
    /\ Contains(wr.command, <<"(">>)
    /\ Contains(wr.command, <<")">>)
    /\ Len(wr.command) = MaxCmdLen

\* C27 as stated: decoding the payload of the wrapper gives back the
\* command, and the command's own text is nowhere in the wrapper.
C27_RoundTripAndNeverRaw ==
    wr.pc = "decoded" =>
       /\ wr.decoded = wr.command
       /\ ~Contains(wr.wrapped, wr.command)

\* C27, amended: decoding the payload of the wrapper gives back the command
\* character for character, whatever the command holds; the command's own
\* text is absent from the wrapper when it holds a character the wrapper
\* cannot hold (a parenthesis, or anything outside ASCII). A command such
\* as "sh" or the empty command is part of the wrapper's fixed text.
C27_RoundTrip ==
    wr.pc = "decoded" =>
       /\ wr.decoded = wr.command
       /\ encode_utf8(wr.decoded) = encode_utf8(wr.command)
       /\ (\E i \in 1..Len(wr.command) :
              wr.command[i] \in {"(", ")", "U+00E9"})
             => ~Contains(wr.wrapped, wr.command)

\* a command with a quote, a parenthesis and a two-byte character came back
C27_Witness ==
    /\ wr.pc = "decoded"
    /\ wr.decoded = wr.command
    /\ Contains(wr.command, <<"'">>)
    /\ Contains(wr.command, <<"(">>)
    /\ Contains(wr.command, <<"U+00E9">>)

\* ------------------------------------------------- claims on SpecExtract
\* the true number of the line that holds the begin marker, the text of the
\* decimal status after the end marker on a line, and the number it denotes
TrueBeginLine ==
    (CHOOSE n \in 1..Len(ex.lines) : HasBegin(ex.lines[n].string)) - 1
StatusText(s) ==
    LET from == Find(s, TheEndPrefix \o <<":">>) + Len(TheEndPrefix) + 2
    IN SubSeq(s, from, Len(s))
DigitValue(c) ==
    CASE c = "0" -> 0 [] c = "1" -> 1 [] c = "2" -> 2 [] c = "3" -> 3
      [] c = "4" -> 4 [] c = "5" -> 5 [] c = "6" -> 6 [] c = "7" -> 7
      [] c = "8" -> 8 [] c = "9" -> 9
RECURSIVE Decimal(_)
Decimal(t) ==
    IF t = <<>> THEN 0 ELSE Decimal(SubSeq(t, 1, Len(t) - 1)) * 10
                            + DigitValue(t[Len(t)])
\* the text of lines B+1 .. E-1, each with a newline when it has a hard
\* end-of-line, then the text of line E before the marker
RECURSIVE TextOfLines(_)
TextOfLines(lines) ==
    IF lines = <<>> THEN <<>>
    ELSE Head(lines).string
         \o (IF Head(lines).hard_eol THEN <<"\n">> ELSE <<>>)
         \o TextOfLines(Tail(lines))
ExpectedOutput(B, E) ==
    TextOfLines(SubSeq(ex.lines, B + 2, E))
       \o SubSeq(ex.lines[E + 1].string, 1,
                 Find(ex.lines[E + 1].string, TheEndPrefix \o <<":">>))

\* C25: once the end marker is found on line E and the begin marker on an
\* earlier line B, what is returned is the text of the lines after B up to
\* E, cut at the marker, together with the exit status the end marker
\* carries.
C25_OutputAndStatusReturned ==
    (ex.pc = "done" /\ ex.begin_line # NoLine) =>
       ex.result =
          [output |-> ExpectedOutput(TrueBeginLine, ex.end_line),
           status |-> Decimal(StatusText(ex.lines[ex.end_line + 1].string))]

\* C29: the line number recorded for the begin marker is the true absolute
\* number of the line that holds the marker, and the extracted output starts
\* on the line after it, also when the overflow counter grows between the
\* read of the counter and the range reads; and the backward search ends, at
\* the marker or at the earliest line it takes to be retained, within as
\* many turns as doublings of the window reach back to that line.
C29_BeginLineIsAbsolute ==
    /\ ex.begin_line # NoLine =>
          /\ ex.begin_line = TrueBeginLine
          /\ HasBegin(ex.lines[ex.begin_line + 1].string)
    /\ (ex.pc = "done" /\ ex.begin_line # NoLine) =>
          /\ ex.content_start = TrueBeginLine + 1
          /\ ex.result.output = ExpectedOutput(TrueBeginLine, ex.end_line)
    /\ ex.pc = "search" =>
          ex.window <= Max(2 * (ex.end_line - ex.overflow_read),
                           Max(WindowFloor, TailProbeLines))

====
